---- MODULE Spec2Model ----
(***************************************************************************)
(* Model of the mod execution core of Infinite (a Diablo II: Resurrected   *)
(* mod manager): the FileManager (file records, in-memory cache, flush),   *)
(* the two host API layers (Context and ScriptServices), the script error  *)
(* function of the three engine bindings, and the install_mods loop.       *)
(*                                                                         *)
(* Paths are sequences of characters over a small alphabet, contents are   *)
(* opaque byte strings tagged with the format they parse as.               *)
(***************************************************************************)
EXTENDS Integers, Sequences, FiniteSets, TLC

(***************************************************************************)
(* Bounds of the model.                                                    *)
(***************************************************************************)
\* host calls made in one behaviour
MaxCalls == 3
\* mods handed to install_mods
NumMods == 2
\* distinct values a script writes
NumVals == 2
\* characters of a TSV field
MaxFieldLen == 2
\* columns of a TSV table
MaxCols == 2

(***************************************************************************)
(* Paths.                                                                  *)
(***************************************************************************)
\* the paths scripts pass to the host: two spellings of one file, and another file
RawPaths ==
  { <<"a">>, <<"A">>, <<"D", "\\", "b">> }

\* char::to_lowercase on the alphabet of the model
ToLowerChar(c) ==
  IF c = "A" THEN "a" ELSE IF c = "D" THEN "d" ELSE IF c = "B" THEN "b" ELSE c

\* variant: separators are unified but the letter case is kept
normalize_path_keep_case(p) ==
  [i \in DOMAIN p |-> IF p[i] = "\\" THEN "/" ELSE p[i]]

\* FileManager::normalize_path: replace('\\', "/") then to_lowercase()
normalize_path(p) ==
  [i \in DOMAIN p |-> ToLowerChar(IF p[i] = "\\" THEN "/" ELSE p[i])]

NPaths == { normalize_path(p) : p \in RawPaths }

(***************************************************************************)
(* Contents: <<format, value>>.  Value 0 is the pristine game data.        *)
(***************************************************************************)
Formats == {"json", "txt"}
Vals == 1..NumVals
\* the format of the file a script writes value v to
FormatOf(v) == IF v % 2 = 1 THEN "json" ELSE "txt"
\* what write_json / write_tsv / write_txt serialise a script value to
Serialize(fmt, v) == <<fmt, v>>
\* the archived original and the copy in the raw game directory
ArchiveContent == <<"json", 0>>
GameDirContent == <<"json", 0>>
\* a file shipped in the mod directory
ModFileContent == <<"bin", 9>>
WrittenContents == { Serialize(f, v) : f \in Formats, v \in Vals }

\* JsonHandler::parse_from_bytes / String::from_utf8 / TsvHandler::parse_from_bytes
Parses(fmt, c) ==
  IF fmt = "json" THEN c[1] = "json" ELSE c[1] # "bin"

(***************************************************************************)
(* Actors.                                                                 *)
(***************************************************************************)
ModIds == 1..NumMods
ModName(i) == <<"mod", i>>
\* ScriptServices records every operation under the fixed actor "script"
ScriptActor == <<"script", 0>>
\* ModExecutor + InfiniteApi + Context, LuaScriptRuntime, JavaScriptRuntime
Bindings == {"executor", "lua", "js"}

(***************************************************************************)
(* Small helpers on finite maps.                                           *)
(***************************************************************************)
EmptyMap == [x \in {} |-> 0]
Put(f, k, v) == [x \in (DOMAIN f) \cup {k} |-> IF x = k THEN v ELSE f[x]]
Range(q) == { q[i] : i \in DOMAIN q }

VARIABLES
  files,       \* FileManager.files: normalized path -> FileStatus
  file_cache,  \* FileManager.file_cache: normalized path -> CachedFile
  disk,        \* the output root: path -> bytes
  casc_open,   \* FileManager.casc_storage is Some
  archive,     \* entry names the opened CASC storage holds
  dry_run,     \* the --dry-run flag
  pc,          \* install_mods: "loop", "script", "done"; "api" for direct use
  idx,         \* install_mods: index of the mod being processed
  binding,     \* engine binding of the running mod
  results,     \* outcome of execute_mod per mod
  ncalls,      \* number of host calls made so far
  last,        \* the last host call and what it returned
  pending,     \* history: bytes last written per normalized path since a flush
  order,       \* history: the mods in the order their host calls were issued
  nflush,      \* history: number of flush_cache calls
  mod_dir,     \* entry files present in the mod directory handed to create_runtime
  js_feature,  \* the build has the js-runtime feature
  rt,          \* the ScriptRuntime created by create_runtime
  tsv_data,    \* the table handed to TsvHandler::write
  tsv_text,    \* the text TsvHandler::write produced
  tsv_rows,    \* the table TsvHandler::read returned / writeTsv handed on
  tsv_table,   \* the Lua table readTsv gave the script
  num_json,    \* the serde_json integer handed to the engine
  num_engine,  \* the engine's value for it
  num_back,    \* the serde_json number converted back from the engine
  engine,      \* the script engine of the mod being run and what its globals hold
  seen,        \* the script-defined globals the running script found when it started
  lock,        \* holder of the write lock of the RwLock around the FileManager, 0 when free
  task,        \* the host calls in progress: operation, arguments and position
  jv_json,     \* the serde_json value handed to the engine
  jv_engine,   \* the engine's native value for it
  jv_back,     \* the serde_json value converted back from the engine
  cache_dir,   \* GitHubDownloader.cache_dir: the paths that exist under it
  network,     \* the requests to GitHub that fail
  dl           \* the calls of GitHubDownloader::download and what they returned

fmvars == <<files, file_cache, disk>>
rtvars == <<mod_dir, js_feature, rt>>
tsvvars == <<tsv_data, tsv_text, tsv_rows, tsv_table>>
numvars == <<num_json, num_engine, num_back>>
engvars == <<engine, seen>>
lockvars == <<lock, task>>
jsonvars == <<jv_json, jv_engine, jv_back>>
dlvars == <<cache_dir, network, dl>>
\* what no host call and no step of install_mods changes
envvars == <<casc_open, archive, dry_run, rtvars, tsvvars, numvars, engvars, lockvars,
    jsonvars, dlvars>>
runvars == <<pc, idx, binding, results>>
vars == <<files, file_cache, disk, casc_open, archive, dry_run, pc, idx, binding,
          results, ncalls, last, pending, order, nflush, rtvars, tsvvars, numvars,
          engvars, lockvars,
    jsonvars, dlvars>>

(***************************************************************************)
(* FileManager: records.                                                   *)
(***************************************************************************)
FileOperation(t, m) == [op_type |-> t, mod_id |-> m]

NewStatus(np) ==
  [exists |-> FALSE, extracted |-> FALSE, file_path |-> np,
   game_file |-> "None", modified |-> FALSE, operations |-> <<>>]

\* variant: the record is keyed by the path as the caller spelled it
get_or_create_raw(fs, p) ==
  IF p \in DOMAIN fs THEN fs ELSE Put(fs, p, NewStatus(p))

\* variant: insert instead of entry().or_insert_with(): a fresh record each time
get_or_create_insert(fs, p) ==
  Put(fs, normalize_path(p), NewStatus(normalize_path(p)))

get_or_create(fs, p) ==
  LET np == normalize_path(p)
  IN IF np \in DOMAIN fs THEN fs ELSE Put(fs, np, NewStatus(np))

is_extracted(fs, p) ==
  LET np == normalize_path(p)
  IN IF np \in DOMAIN fs THEN fs[np].extracted ELSE FALSE

exists(fs, p) ==
  LET np == normalize_path(p)
  IN IF np \in DOMAIN fs THEN fs[np].exists ELSE FALSE

is_modified(fs, p) ==
  LET np == normalize_path(p)
  IN IF np \in DOMAIN fs THEN fs[np].modified ELSE FALSE

\* variant: an extraction already recorded for the path is not logged again
record_extract_once(fs, p, m) ==
  LET np == normalize_path(p)
      g == get_or_create(fs, p)
  IN IF g[np].extracted THEN g
     ELSE [g EXCEPT ![np] =
             [@ EXCEPT !.extracted = TRUE, !.exists = TRUE, !.game_file = "Some(true)",
                       !.operations = Append(@, FileOperation("Extract", m))]]

record_extract(fs, p, m) ==
  LET np == normalize_path(p)
      g == get_or_create(fs, p)
  IN [g EXCEPT ![np] =
        [@ EXCEPT !.extracted = TRUE, !.exists = TRUE, !.game_file = "Some(true)",
                  !.operations = Append(@, FileOperation("Extract", m))]]

\* variant: the log is restarted at the read
record_read_reset(fs, p, m) ==
  LET np == normalize_path(p)
      g == get_or_create(fs, p)
  IN [g EXCEPT ![np] =
        [@ EXCEPT !.exists = TRUE,
                  !.operations = <<FileOperation("Read", m)>>]]

record_read(fs, p, m) ==
  LET np == normalize_path(p)
      g == get_or_create(fs, p)
  IN [g EXCEPT ![np] =
        [@ EXCEPT !.exists = TRUE,
                  !.operations = Append(@, FileOperation("Read", m))]]

\* variant: the path is marked modified but the operation is not logged
record_write_unlogged(fs, p, m) ==
  LET np == normalize_path(p)
      g == get_or_create(fs, p)
  IN [g EXCEPT ![np] = [@ EXCEPT !.exists = TRUE, !.modified = TRUE]]

record_write(fs, p, m) ==
  LET np == normalize_path(p)
      g == get_or_create(fs, p)
  IN [g EXCEPT ![np] =
        [@ EXCEPT !.exists = TRUE, !.modified = TRUE,
                  !.operations = Append(@, FileOperation("Write", m))]]

\* the paths whose log has a Write by mod_id
get_files_modified_by(fs, mod_id) ==
  { k \in DOMAIN fs :
      \E i \in DOMAIN fs[k].operations :
        fs[k].operations[i] = FileOperation("Write", mod_id) }

is_cached(fc, p) == normalize_path(p) \in DOMAIN fc

get_status(fs, p) ==
  LET np == normalize_path(p)
  IN IF np \in DOMAIN fs THEN fs[np] ELSE "None"

(***************************************************************************)
(* The archive backend (CascStorage) and the raw game directory.           *)
(***************************************************************************)
ReplaceChar(p, from, to) == [i \in DOMAIN p |-> IF p[i] = from THEN to ELSE p[i]]

\* CascStorage::extract_file: the path variants, in the order they are tried
Variations(p) ==
  << <<"data:data\\", p>>,
     <<"data:data/", p>>,
     <<"", p>>,
     <<"", ReplaceChar(p, "/", "\\")>>,
     <<"", ReplaceChar(p, "\\", "/")>> >>

\* index of the first variant that opens, 0 when none does
FirstVariant(arch, p) ==
  LET hits == { i \in 1..Len(Variations(p)) : Variations(p)[i] \in arch }
  IN IF hits = {} THEN 0
     ELSE CHOOSE i \in hits : \A j \in hits : i <= j

\* CascStorage::extract_file: the output file is written only on a hit
\* no content
NoBytes == <<"none", 0>>

\* variant: the output file is created before the variants are tried
extract_file_create_first(arch, dk, p, dest) ==
  IF FirstVariant(arch, p) = 0
    THEN [ok |-> FALSE, disk |-> Put(dk, dest, NoBytes), tried |-> Variations(p)]
    ELSE [ok |-> TRUE, disk |-> Put(dk, dest, ArchiveContent),
          tried |-> SubSeq(Variations(p), 1, FirstVariant(arch, p))]

\* tried: the variants handed to storage.entry(), in order
extract_file(arch, dk, p, dest) ==
  IF FirstVariant(arch, p) = 0
    THEN [ok |-> FALSE, disk |-> dk, tried |-> Variations(p)]
    ELSE [ok |-> TRUE, disk |-> Put(dk, dest, ArchiveContent),
          tried |-> SubSeq(Variations(p), 1, FirstVariant(arch, p))]

\* files present under game_path (normalized relative paths)
GameDirFiles == { <<"a">> }

\* the entries of the archive a run opens: "a" under the namespaced name,
\* "D/b" under its forward-slash name only
ArchiveEntries ==
  { <<"data:data\\", <<"a">>>>, <<"", <<"D", "/", "b">>>> }

(***************************************************************************)
(* FileManager: extraction, cache and flush.                               *)
(***************************************************************************)
\* the backends ensure_extracted consulted, in order
CascCalls(tried) == [i \in DOMAIN tried |-> <<"casc", tried[i]>>]
GameDirCall(np) == << <<"game_path", <<"", np>>>> >>

\* variant: the game directory is consulted after the archive missed
ensure_extracted_fallback(fs, dk, arch, casc, p, m) ==
  LET np == normalize_path(p)
      x == extract_file(arch, dk, p, np)
      before == IF casc THEN CascCalls(x.tried) ELSE <<>>
  IN IF is_extracted(fs, np) /\ np \in DOMAIN dk
       THEN [ok |-> TRUE, files |-> fs, disk |-> dk, calls |-> <<>>]
     ELSE IF casc /\ x.ok
       THEN [ok |-> TRUE, files |-> record_extract(fs, np, m), disk |-> x.disk,
             calls |-> before]
     ELSE IF np \in GameDirFiles
       THEN [ok |-> TRUE, files |-> record_extract(fs, np, m),
             disk |-> Put(dk, np, GameDirContent), calls |-> before \o GameDirCall(np)]
     ELSE [ok |-> FALSE, files |-> fs, disk |-> dk, calls |-> before \o GameDirCall(np)]

\* variant: the record and the output copy are not looked at
ensure_extracted_always(fs, dk, arch, casc, p, m) ==
  LET np == normalize_path(p)
  IN IF casc
       THEN LET x == extract_file(arch, dk, p, np)
            IN IF x.ok
                 THEN [ok |-> TRUE, files |-> record_extract(fs, np, m), disk |-> x.disk,
                       calls |-> CascCalls(x.tried)]
                 ELSE [ok |-> FALSE, files |-> fs, disk |-> x.disk, calls |-> CascCalls(x.tried)]
     ELSE IF np \in GameDirFiles
       THEN [ok |-> TRUE, files |-> record_extract(fs, np, m),
             disk |-> Put(dk, np, GameDirContent), calls |-> GameDirCall(np)]
     ELSE [ok |-> FALSE, files |-> fs, disk |-> dk, calls |-> GameDirCall(np)]

\* calls: the backends consulted (storage.entry(variant), game_path.join(np).exists())
ensure_extracted(fs, dk, arch, casc, p, m) ==
  LET np == normalize_path(p)
  IN IF is_extracted(fs, np) /\ np \in DOMAIN dk
       THEN [ok |-> TRUE, files |-> fs, disk |-> dk, calls |-> <<>>]
     ELSE IF casc
       THEN LET x == extract_file(arch, dk, p, np)
            IN IF x.ok
                 THEN [ok |-> TRUE, files |-> record_extract(fs, np, m), disk |-> x.disk,
                       calls |-> CascCalls(x.tried)]
                 ELSE [ok |-> FALSE, files |-> fs, disk |-> x.disk, calls |-> CascCalls(x.tried)]
     ELSE IF np \in GameDirFiles
       THEN [ok |-> TRUE, files |-> record_extract(fs, np, m),
             disk |-> Put(dk, np, GameDirContent), calls |-> GameDirCall(np)]
     ELSE [ok |-> FALSE, files |-> fs, disk |-> dk, calls |-> GameDirCall(np)]

\* variant: the file on disk is preferred to the cache entry
read_file_with_cache_disk_first(fs, fc, dk, p, m) ==
  LET np == normalize_path(p)
  IN IF np \in DOMAIN dk
       THEN [ok |-> TRUE, content |-> dk[np], files |-> record_read(fs, np, m)]
     ELSE IF np \in DOMAIN fc
       THEN [ok |-> TRUE, content |-> fc[np].content, files |-> record_read(fs, np, m)]
     ELSE [ok |-> FALSE, content |-> NoBytes, files |-> fs]

\* variant: a path without a cache entry is not found
read_file_with_cache_cache_only(fs, fc, dk, p, m) ==
  LET np == normalize_path(p)
  IN IF np \in DOMAIN fc
       THEN [ok |-> TRUE, content |-> fc[np].content, files |-> record_read(fs, np, m)]
       ELSE [ok |-> FALSE, content |-> NoBytes, files |-> fs]

read_file_with_cache(fs, fc, dk, p, m) ==
  LET np == normalize_path(p)
  IN IF np \in DOMAIN fc
       THEN [ok |-> TRUE, content |-> fc[np].content, files |-> record_read(fs, np, m)]
     ELSE IF np \in DOMAIN dk
       THEN [ok |-> TRUE, content |-> dk[np], files |-> record_read(fs, np, m)]
     ELSE [ok |-> FALSE, content |-> NoBytes, files |-> fs]

CachedFile(c) == [content |-> c, dirty |-> TRUE]

\* variant: the write also goes to the output file
write_file_to_cache_through(fs, fc, dk, p, c, m) ==
  LET np == normalize_path(p)
  IN [cache |-> Put(fc, np, CachedFile(c)),
      files |-> record_write(fs, np, m),
      disk |-> Put(dk, np, c)]

\* variant: an entry that is already cached is kept (first writer wins)
write_file_to_cache_keep_first(fs, fc, dk, p, c, m) ==
  LET np == normalize_path(p)
  IN [cache |-> IF np \in DOMAIN fc THEN fc ELSE Put(fc, np, CachedFile(c)),
      files |-> record_write(fs, np, m),
      disk |-> dk]

write_file_to_cache(fs, fc, dk, p, c, m) ==
  LET np == normalize_path(p)
  IN [cache |-> Put(fc, np, CachedFile(c)),
      files |-> record_write(fs, np, m),
      disk |-> dk]

\* variant: the entries are drained but not written
flush_cache_nowrite(fc, dk, W, fail) ==
  [ok |-> ~fail, cache |-> EmptyMap, disk |-> dk, written |-> {}]

\* variant: the loop iterates over the cache without draining it
flush_cache_keep(fc, dk, W, fail) ==
  [ok |-> ~fail,
   cache |-> fc,
   disk |-> [x \in (DOMAIN dk) \cup W |-> IF x \in W THEN fc[x].content ELSE dk[x]],
   written |-> W]

\* flush_cache: W is the set of entries the drain loop wrote before it
\* returned; the loop returns early (fail) on the first I/O error.  Dropping
\* the Drain iterator removes every entry that was not yet visited.
flush_cache(fc, dk, W, fail) ==
  [ok |-> ~fail,
   cache |-> EmptyMap,
   disk |-> [x \in (DOMAIN dk) \cup { q \in W : fc[q].dirty } |->
               IF x \in W /\ fc[x].dirty THEN fc[x].content ELSE dk[x]],
   written |-> { q \in W : fc[q].dirty }]

\* the (W, fail) outcomes the drain loop can have on cache fc
FlushOutcomes(fc) ==
  { <<DOMAIN fc, FALSE>> } \cup
  { <<W, TRUE>> : W \in (SUBSET (DOMAIN fc)) \ {DOMAIN fc} }

(***************************************************************************)
(* The mod directory of the running mod.                                   *)
(***************************************************************************)
\* plain files of the mod directory
ModFiles == { <<"m">> }
\* directories of the mod directory and the file names they hold
ModDirs == { <<"x">> }
DirEntries(src) == { <<"b">> }
\* PathBuf::join of a directory and an entry name
Join(dst, name) == dst \o <<"/">> \o name
\* sources and destinations scripts pass to copyFile
CopySrcs == ModFiles \cup ModDirs \cup { <<"a">> }
DirDsts == { <<"d">> }

(***************************************************************************)
(* Host API: Context (used by InfiniteApi) and ScriptServices (used by     *)
(* InfiniteApiCore and the LuaScriptRuntime / JavaScriptRuntime bindings). *)
(***************************************************************************)
HostResult(ok, err, c, fs, fc, dk) ==
  [ok |-> ok, err |-> err, content |-> c, files |-> fs, cache |-> fc, disk |-> dk]

\* variant: the file is extracted before the cache is looked at
ReadThrough_extract_first(fs, fc, dk, arch, casc, p, actor, fmt) ==
  LET e == ensure_extracted(fs, dk, arch, casc, p, actor)
      r == read_file_with_cache(e.files, fc, e.disk, p, actor)
  IN IF r.ok
       THEN IF Parses(fmt, r.content)
              THEN HostResult(TRUE, "", r.content, r.files, fc, e.disk)
              ELSE HostResult(FALSE, "parse", NoBytes, r.files, fc, e.disk)
       ELSE HostResult(FALSE, "notfound", NoBytes, fs, fc, dk)

\* variant: the read is recorded before the extraction is attempted
ReadThrough_record_miss(fs, fc, dk, arch, casc, p, actor, fmt) ==
  LET r == read_file_with_cache(fs, fc, dk, p, actor)
  IN IF r.ok
       THEN IF Parses(fmt, r.content)
              THEN HostResult(TRUE, "", r.content, r.files, fc, dk)
              ELSE HostResult(FALSE, "parse", NoBytes, r.files, fc, dk)
     ELSE LET e == ensure_extracted(record_read(fs, p, actor), dk, arch, casc, p, actor)
          IN IF ~e.ok
               THEN HostResult(FALSE, "notfound", NoBytes, e.files, fc, dk)
             ELSE IF Parses(fmt, e.disk[normalize_path(p)])
               THEN HostResult(TRUE, "", e.disk[normalize_path(p)], e.files, fc, e.disk)
             ELSE HostResult(FALSE, "parse", NoBytes, e.files, fc, e.disk)

\* the body shared by read_json / read_tsv / read_txt of both layers:
\* cache first, then extraction, then the file on disk, then record_read
ReadThrough(fs, fc, dk, arch, casc, p, actor, fmt) ==
  LET r == read_file_with_cache(fs, fc, dk, p, actor)
  IN IF r.ok
       THEN IF Parses(fmt, r.content)
              THEN HostResult(TRUE, "", r.content, r.files, fc, dk)
              ELSE HostResult(FALSE, "parse", NoBytes, r.files, fc, dk)
     ELSE LET e == ensure_extracted(fs, dk, arch, casc, p, actor)
          IN IF ~e.ok
               THEN HostResult(FALSE, "notfound", NoBytes, fs, fc, dk)
             ELSE IF Parses(fmt, e.disk[normalize_path(p)])
               THEN HostResult(TRUE, "", e.disk[normalize_path(p)],
                               record_read(e.files, p, actor), fc, e.disk)
             ELSE HostResult(FALSE, "parse", NoBytes, e.files, fc, e.disk)

Context_read(fs, fc, dk, arch, casc, p, m, fmt) ==
  ReadThrough(fs, fc, dk, arch, casc, p, ModName(m), fmt)

Services_read(fs, fc, dk, arch, casc, p, fmt) ==
  ReadThrough(fs, fc, dk, arch, casc, p, ScriptActor, fmt)

Context_write(fs, fc, dk, dry, p, fmt, v, m) ==
  IF dry
    THEN HostResult(TRUE, "", NoBytes, fs, fc, dk)
    ELSE LET w == write_file_to_cache(fs, fc, dk, p, Serialize(fmt, v), ModName(m))
         IN HostResult(TRUE, "", NoBytes, w.files, w.cache, w.disk)

\* variant: the serialised value is written to the output file, not cached
Services_write_direct(fs, fc, dk, p, fmt, v) ==
  HostResult(TRUE, "", NoBytes, record_write(fs, p, ScriptActor), fc,
             Put(dk, normalize_path(p), Serialize(fmt, v)))

Services_write(fs, fc, dk, p, fmt, v) ==
  LET w == write_file_to_cache(fs, fc, dk, p, Serialize(fmt, v), ScriptActor)
  IN HostResult(TRUE, "", NoBytes, w.files, w.cache, w.disk)

Context_copy_file(fs, fc, dk, dry, src, dst, overwrite, m) ==
  IF dry
    THEN HostResult(TRUE, "", NoBytes, fs, fc, dk)
  ELSE IF ~overwrite /\ dst \in DOMAIN dk
    THEN HostResult(TRUE, "", NoBytes, fs, fc, dk)
  ELSE IF src \notin ModFiles
    THEN HostResult(FALSE, "copy", NoBytes, fs, fc, dk)
  ELSE HostResult(TRUE, "", NoBytes, record_write(fs, dst, ModName(m)), fc,
                  Put(dk, dst, ModFileContent))

copy_dir_recursive(dk, src, dst) ==
  [x \in (DOMAIN dk) \cup { Join(dst, n) : n \in DirEntries(src) } |->
     IF x \in { Join(dst, n) : n \in DirEntries(src) } THEN ModFileContent ELSE dk[x]]

Services_copy_file(fs, fc, dk, arch, casc, src, dst) ==
  IF src \in ModDirs
    THEN HostResult(TRUE, "", NoBytes, fs, fc, copy_dir_recursive(dk, src, dst))
  ELSE IF src \in ModFiles
    THEN HostResult(TRUE, "", NoBytes, fs, fc, Put(dk, dst, ModFileContent))
  ELSE LET r == read_file_with_cache(fs, fc, dk, src, ScriptActor)
       IN IF r.ok
            THEN LET w == write_file_to_cache(r.files, fc, dk, dst, r.content, ScriptActor)
                 IN HostResult(TRUE, "", r.content, w.files, w.cache, w.disk)
          ELSE LET e == ensure_extracted(fs, dk, arch, casc, src, ScriptActor)
               IN IF ~e.ok
                    THEN HostResult(FALSE, "notfound", NoBytes, fs, fc, dk)
                    ELSE LET c == e.disk[normalize_path(src)]
                             w == write_file_to_cache(e.files, fc, e.disk, dst, c, ScriptActor)
                         IN HostResult(TRUE, "", c, w.files, w.cache, w.disk)

Context_extract_file(fs, fc, dk, arch, casc, dry, p, m) ==
  IF dry
    THEN HostResult(TRUE, "", NoBytes, fs, fc, dk)
    ELSE LET e == ensure_extracted(fs, dk, arch, casc, p, ModName(m))
         IN HostResult(e.ok, IF e.ok THEN "" ELSE "notfound", NoBytes, e.files, fc, e.disk)

(***************************************************************************)
(* The script error function of each binding, as the failure message the   *)
(* execution ends with (a sequence of text pieces).                        *)
(***************************************************************************)
Msgs == { "boom" }

\* lua_api/infinite.rs "error" raised through ModExecutor::execute_mod
executor_error(msg) == << "Failed to execute mod.lua: ", "runtime error: ", msg >>
\* LuaScriptRuntime::setup_api "error" raised through LuaScriptRuntime::execute
lua_error(msg) == << "runtime error: ", msg >>
\* JavaScriptRuntime::register_d2rmm_api "error": the Error object is built but
\* never thrown, and execute() formats the bare rquickjs::Error::Exception
js_error(msg) == << "JavaScript execution error: ", "Exception" >>

ErrorMessage(b, msg) ==
  IF b = "executor" THEN executor_error(msg)
  ELSE IF b = "lua" THEN lua_error(msg)
  ELSE js_error(msg)

Contains(text, msg) == \E i \in DOMAIN text : text[i] = msg

(***************************************************************************)
(* State.                                                                  *)
(***************************************************************************)
Last(op, b, m, p, r, msg, written) ==
  [op |-> op, binding |-> b, mod |-> m, path |-> p, ok |-> r.ok, err |-> r.err,
   content |-> r.content, msg |-> msg, written |-> written]

NoCall ==
  [op |-> "none", binding |-> "none", mod |-> 0, path |-> <<>>, ok |-> TRUE,
   err |-> "", content |-> NoBytes, msg |-> <<>>, written |-> {}]

\* no runtime was created through the factory
NoRuntime ==
  [kind |-> "none", err |-> "", api |-> FALSE, config |-> FALSE, runs |-> 0,
   stage |-> "none"]

IdleRuntime == mod_dir = {} /\ js_feature = FALSE /\ rt = NoRuntime

IdleTsv == tsv_data = <<>> /\ tsv_text = <<>> /\ tsv_rows = <<>> /\ tsv_table = <<>>

IdleNum == num_json = <<>> /\ num_engine = <<>> /\ num_back = <<>>

\* no engine was built
NoEngine == [kind |-> "none", globals |-> {}, config |-> 0, disabled |-> {}, api |-> FALSE]

IdleEngine == engine = NoEngine /\ seen = {}

IdleLock == lock = 0 /\ task = <<>>

IdleJson == jv_json = <<>> /\ jv_engine = <<>> /\ jv_back = <<>>

IdleDl == cache_dir = {} /\ network = {} /\ dl = <<>>

\* FileManager::new(), set_output_path, set_game_path, CascStorage::open
InitFileManager ==
  /\ files = EmptyMap
  /\ file_cache = EmptyMap
  /\ disk = EmptyMap
  /\ casc_open \in BOOLEAN
  /\ archive = (IF casc_open THEN ArchiveEntries ELSE {})
  /\ dry_run \in BOOLEAN
  /\ ncalls = 0
  /\ last = NoCall
  /\ pending = EmptyMap
  /\ order = <<>>
  /\ nflush = 0

\* the host API driven directly, in any order
Init ==
  /\ InitFileManager
  /\ IdleRuntime /\ IdleTsv /\ IdleNum /\ IdleEngine /\ IdleLock /\ IdleJson /\ IdleDl
  /\ pc = "api"
  /\ idx = 0
  /\ binding = "none"
  /\ results = [i \in ModIds |-> "pending"]

\* install_mods, after the shared file manager was created
InitRun ==
  /\ InitFileManager
  /\ IdleRuntime /\ IdleTsv /\ IdleNum /\ IdleEngine /\ IdleLock /\ IdleJson /\ IdleDl
  /\ pc = "loop"
  /\ idx = 1
  /\ binding = "none"
  /\ results = [i \in ModIds |-> "pending"]

(***************************************************************************)
(* Host calls as steps.                                                    *)
(***************************************************************************)
Apply(r) ==
  /\ UNCHANGED nflush
  /\ files' = r.files
  /\ file_cache' = r.cache
  /\ disk' = r.disk
  /\ ncalls' = ncalls + 1
  /\ UNCHANGED envvars

DoRead(b, m, p, fmt) ==
  LET r == IF b = "executor"
             THEN Context_read(files, file_cache, disk, archive, casc_open, p, m, fmt)
             ELSE Services_read(files, file_cache, disk, archive, casc_open, p, fmt)
  IN /\ Apply(r)
     /\ last' = Last("read", b, m, p, r, <<>>, {})
     /\ order' = Append(order, m)
     /\ UNCHANGED pending

DoWrite(b, m, p, fmt, v) ==
  LET r == IF b = "executor"
             THEN Context_write(files, file_cache, disk, dry_run, p, fmt, v, m)
             ELSE Services_write(files, file_cache, disk, p, fmt, v)
  IN /\ Apply(r)
     /\ last' = Last("write", b, m, p, [r EXCEPT !.content = Serialize(fmt, v)], <<>>, {})
     /\ order' = Append(order, m)
     /\ pending' = IF b = "executor" /\ dry_run THEN pending
                   ELSE Put(pending, normalize_path(p), Serialize(fmt, v))

DoCopy(b, m, src, dst, overwrite) ==
  LET r == IF b = "executor"
             THEN Context_copy_file(files, file_cache, disk, dry_run, src, dst, overwrite, m)
             ELSE Services_copy_file(files, file_cache, disk, archive, casc_open, src, dst)
  IN /\ Apply(r)
     /\ last' = Last("copy", b, m, dst, r, <<>>, {})
     /\ order' = Append(order, m)
     /\ pending' = IF b # "executor" /\ r.ok /\ src \notin (ModFiles \cup ModDirs)
                     THEN Put(pending, normalize_path(dst), r.content)
                     ELSE pending

DoExtract(m, p) ==
  LET r == Context_extract_file(files, file_cache, disk, archive, casc_open, dry_run, p, m)
  IN /\ Apply(r)
     /\ last' = Last("extract", "executor", m, p, r, <<>>, {})
     /\ order' = Append(order, m)
     /\ UNCHANGED pending

\* variant: the cache is emptied when a script raises an error
DoThrow_rollback(b, m, msg) ==
  /\ ncalls' = ncalls + 1
  /\ last' = Last("error", b, m, <<>>, HostResult(FALSE, "script", NoBytes, files, file_cache, disk),
                  ErrorMessage(b, msg), {})
  /\ order' = Append(order, m)
  /\ file_cache' = EmptyMap
  /\ UNCHANGED <<files, disk, envvars, pending, nflush>>

DoThrow(b, m, msg) ==
  /\ ncalls' = ncalls + 1
  /\ last' = Last("error", b, m, <<>>, HostResult(FALSE, "script", NoBytes, files, file_cache, disk),
                  ErrorMessage(b, msg), {})
  /\ order' = Append(order, m)
  /\ UNCHANGED <<fmvars, envvars, pending, nflush>>

DoFlush ==
  \E o \in FlushOutcomes(file_cache) :
    LET f == flush_cache(file_cache, disk, o[1], o[2])
    IN /\ file_cache' = f.cache
       /\ disk' = f.disk
       /\ last' = Last("flush", "none", 0, <<>>,
                       HostResult(f.ok, IF f.ok THEN "" ELSE "io", NoBytes, files, f.cache, f.disk),
                       <<>>, f.written)
       /\ pending' = EmptyMap
       /\ nflush' = nflush + 1
       /\ UNCHANGED <<files, envvars, order>>

(***************************************************************************)
(* Specification of the host API used directly.                            *)
(***************************************************************************)
\* the callers: mod 1 run by ModExecutor (Context), mod 2 run by a
\* LuaScriptRuntime or a JavaScriptRuntime (ScriptServices)
Callers == { <<"executor", 1>>, <<"lua", 2>> }
Throwers == Callers \cup { <<"js", 2>> }
\* destinations of copyFile for a plain source
CopyDsts == { <<"A">>, <<"D", "\\", "b">> }

ApiRead ==
  /\ pc = "api" /\ ncalls < MaxCalls
  /\ \E c \in Callers, p \in RawPaths, fmt \in Formats : DoRead(c[1], c[2], p, fmt)
  /\ UNCHANGED runvars

ApiWrite ==
  /\ pc = "api" /\ ncalls < MaxCalls
  /\ \E c \in Callers, p \in RawPaths, v \in Vals : DoWrite(c[1], c[2], p, FormatOf(v), v)
  /\ UNCHANGED runvars

ApiCopy ==
  /\ pc = "api" /\ ncalls < MaxCalls
  /\ \E c \in Callers, src \in CopySrcs, overwrite \in BOOLEAN :
       \E dst \in (IF src \in ModDirs THEN DirDsts ELSE CopyDsts) :
         /\ c[1] # "executor" => overwrite = FALSE
         /\ c[1] = "executor" => src \in ModFiles \cup ModDirs
         /\ DoCopy(c[1], c[2], src, dst, overwrite)
  /\ UNCHANGED runvars

ApiExtract ==
  /\ pc = "api" /\ ncalls < MaxCalls
  /\ \E c \in Callers, p \in RawPaths : c[1] = "executor" /\ DoExtract(c[2], p)
  /\ UNCHANGED runvars

ApiThrow ==
  /\ pc = "api" /\ ncalls < MaxCalls
  /\ \E c \in Throwers, msg \in Msgs : DoThrow(c[1], c[2], msg)
  /\ UNCHANGED runvars

ApiFlush ==
  /\ pc = "api" /\ ncalls < MaxCalls
  /\ DoFlush
  /\ ncalls' = ncalls + 1
  /\ UNCHANGED runvars

Next == ApiRead \/ ApiWrite \/ ApiCopy \/ ApiExtract \/ ApiThrow \/ ApiFlush

Spec == Init /\ [][Next]_vars

(***************************************************************************)
(* Specification of install_mods: the mods one after the other, each run   *)
(* by one binding, then one flush.                                         *)
(***************************************************************************)
\* variant: the error of execute_mod is propagated out of install_mods
ModFailed_abort ==
  /\ results' = [results EXCEPT ![idx] = "failed"]
  /\ idx' = idx
  /\ pc' = "done"
  /\ binding' = "none"

\* main.rs: Err(e) arm of the match on execute_mod: report, continue
ModFailed ==
  /\ results' = [results EXCEPT ![idx] = "failed"]
  /\ idx' = idx + 1
  /\ pc' = "loop"
  /\ binding' = "none"

\* main.rs: Ok(_) arm of the match on execute_mod
ModInstalled ==
  /\ results' = [results EXCEPT ![idx] = "ok"]
  /\ idx' = idx + 1
  /\ pc' = "loop"
  /\ binding' = "none"

\* a host call that failed raises an error in the script, which ends it
AfterCall(ok) == IF ok THEN UNCHANGED runvars ELSE ModFailed

\* variant: execute_mod is spawned and not awaited before the next iteration
StartMod_noawait ==
  /\ pc \in {"loop", "script"}
  /\ (IF pc = "loop" THEN idx ELSE idx + 1) <= NumMods
  /\ idx' = (IF pc = "loop" THEN idx ELSE idx + 1)
  /\ binding' \in Bindings
  /\ results' = [results EXCEPT ![idx'] = "running"]
  /\ pc' = "script"
  /\ UNCHANGED <<fmvars, envvars, ncalls, last, pending, order, nflush>>

\* the loop body up to the start of the script: the context, the engine,
\* the API and config globals
StartMod ==
  /\ pc = "loop" /\ idx <= NumMods
  /\ binding' \in Bindings
  /\ results' = [results EXCEPT ![idx] = "running"]
  /\ pc' = "script"
  /\ UNCHANGED <<idx, fmvars, envvars, ncalls, last, pending, order, nflush>>

\* execute_mod fails before the script runs (the script file cannot be read)
LoadFails ==
  /\ pc = "loop" /\ idx <= NumMods
  /\ ModFailed
  /\ UNCHANGED <<fmvars, envvars, ncalls, last, pending, order, nflush>>

RunRead ==
  /\ pc = "script" /\ ncalls < MaxCalls
  /\ \E p \in RawPaths, fmt \in Formats : DoRead(binding, idx, p, fmt)
  /\ AfterCall(last'.ok)

RunWrite ==
  /\ pc = "script" /\ ncalls < MaxCalls
  /\ \E p \in RawPaths, v \in Vals : DoWrite(binding, idx, p, FormatOf(v), v)
  /\ AfterCall(last'.ok)

RunCopy ==
  /\ pc = "script" /\ ncalls < MaxCalls
  /\ \E src \in CopySrcs, overwrite \in BOOLEAN :
       \E dst \in (IF src \in ModDirs THEN DirDsts ELSE CopyDsts) :
         /\ binding # "executor" => overwrite = FALSE
         /\ binding = "executor" => src \in ModFiles \cup ModDirs
         /\ DoCopy(binding, idx, src, dst, overwrite)
  /\ AfterCall(last'.ok)

RunExtract ==
  /\ pc = "script" /\ ncalls < MaxCalls
  /\ binding = "executor"
  /\ \E p \in RawPaths : DoExtract(idx, p)
  /\ AfterCall(last'.ok)

RunThrow ==
  /\ pc = "script" /\ ncalls < MaxCalls
  /\ \E msg \in Msgs : DoThrow(binding, idx, msg)
  /\ ModFailed

\* the script returns
EndScript ==
  /\ pc = "script"
  /\ ModInstalled
  /\ UNCHANGED <<fmvars, envvars, ncalls, last, pending, order, nflush>>

\* how install_mods ends: "done" is the return of Ok(()) at its end, "error"
\* the return of an Err; after the loop no statement returns an Err
RunOk == "done"
RunErr == "error"

\* main.rs: the flush after the loop; its error is printed and the function
\* goes on to the summary and returns Ok(())
RunFlush ==
  /\ pc = "loop" /\ idx > NumMods
  /\ DoFlush
  /\ pc' = RunOk
  /\ UNCHANGED <<idx, binding, results, ncalls>>

NextRun ==
  \/ StartMod \/ LoadFails \/ RunRead \/ RunWrite \/ RunCopy \/ RunExtract
  \/ RunThrow \/ EndScript \/ RunFlush

SpecRun == InitRun /\ [][NextRun]_vars

(***************************************************************************)
(* The runtime factory and the ScriptRuntime interface: create_runtime,    *)
(* then setup_api / setup_config / execute / cleanup called by the owner   *)
(* of the runtime.  Neither LuaScriptRuntime nor JavaScriptRuntime keeps a *)
(* lifecycle field; stage and runs are history: the last method that       *)
(* returned, and the number of times the entry script was run.             *)
(***************************************************************************)
EntryFiles == {"mod.lua", "mod.js"}

Runtime(kind) ==
  [kind |-> kind, err |-> "", api |-> FALSE, config |-> FALSE, runs |-> 0,
   stage |-> "Constructed"]

NoRuntimeBecause(err) == [NoRuntime EXCEPT !.err = err]

\* variant: mod.js is looked for before mod.lua
create_runtime_js_first(dir, js) ==
  IF "mod.js" \in dir
    THEN IF js THEN Runtime("JavaScript") ELSE NoRuntimeBecause("RuntimeDisabled")
  ELSE IF "mod.lua" \in dir THEN Runtime("Lua")
  ELSE NoRuntimeBecause("NoScriptFound")

create_runtime(dir, js) ==
  IF "mod.lua" \in dir THEN Runtime("Lua")
  ELSE IF "mod.js" \in dir
    THEN IF js THEN Runtime("JavaScript") ELSE NoRuntimeBecause("RuntimeDisabled")
  ELSE NoRuntimeBecause("NoScriptFound")

\* the globals D2RMM / infinite / console are (re)registered
setup_api(r) == [r EXCEPT !.api = TRUE, !.stage = "ApiBound"]

\* the global config is (re)set
setup_config(r) == [r EXCEPT !.config = TRUE, !.stage = "ConfigBound"]

\* the entry file is read and evaluated, whatever was called before
execute(r) == [r EXCEPT !.runs = @ + 1, !.stage = "Executed"]

\* Ok(()) and nothing else
cleanup(r) == [r EXCEPT !.stage = "CleanedUp"]

InitRuntime ==
  /\ files = EmptyMap /\ file_cache = EmptyMap /\ disk = EmptyMap
  /\ casc_open = FALSE /\ archive = {} /\ dry_run = FALSE
  /\ pc = "factory" /\ idx = 0 /\ binding = "none"
  /\ results = [i \in ModIds |-> "pending"]
  /\ ncalls = 0 /\ last = NoCall /\ pending = EmptyMap /\ order = <<>> /\ nflush = 0
  /\ mod_dir \in SUBSET EntryFiles
  /\ js_feature \in BOOLEAN
  /\ rt = NoRuntime
  /\ IdleTsv /\ IdleNum /\ IdleEngine /\ IdleLock /\ IdleJson /\ IdleDl

hostvars ==
  <<files, file_cache, disk, casc_open, archive, dry_run, idx, binding, results,
    last, pending, order, nflush, numvars, engvars, lockvars,
    jsonvars, dlvars>>

CreateRuntime ==
  /\ pc = "factory"
  /\ rt' = create_runtime(mod_dir, js_feature)
  /\ pc' = IF rt'.kind = "none" THEN "failed" ELSE "runtime"
  /\ UNCHANGED <<hostvars, ncalls, mod_dir, js_feature, tsvvars>>

\* what a method call leaves alone
MethodFrame ==
  /\ ncalls' = ncalls + 1
  /\ UNCHANGED <<hostvars, pc, mod_dir, js_feature, tsvvars>>

SetupApi ==
  /\ pc = "runtime" /\ ncalls < MaxCalls
  /\ rt' = setup_api(rt)
  /\ MethodFrame

SetupConfig ==
  /\ pc = "runtime" /\ ncalls < MaxCalls
  /\ rt' = setup_config(rt)
  /\ MethodFrame

Execute ==
  /\ pc = "runtime" /\ ncalls < MaxCalls
  /\ rt' = execute(rt)
  /\ MethodFrame

Cleanup ==
  /\ pc = "runtime" /\ ncalls < MaxCalls
  /\ rt' = cleanup(rt)
  /\ MethodFrame

NextRuntime == CreateRuntime \/ SetupApi \/ SetupConfig \/ Execute \/ Cleanup

SpecRuntime == InitRuntime /\ [][NextRuntime]_vars

(***************************************************************************)
(* TsvHandler: a table is a sequence of rows, a row a sequence of fields,  *)
(* a field and the file text sequences of characters.                      *)
(***************************************************************************)
\* the characters of a field: a letter, the comma, the double quote, the tab
TsvChars == {"x", ",", "\"", "\t"}
Fields == UNION { [1..n -> TsvChars] : n \in 0..MaxFieldLen }
\* a header row of n plain column names
Header(n) == [i \in 1..n |-> [j \in 1..i |-> "x"]]
\* the tables handed to the writer: a header row and one data row
Tables == UNION { { <<Header(n), r>> : r \in [1..n -> Fields] } : n \in 1..MaxCols }

RECURSIVE JoinWith(_, _)
\* Vec<String>::join(sep)
JoinWith(parts, sep) ==
  IF parts = <<>> THEN <<>>
  ELSE IF Len(parts) = 1 THEN parts[1]
  ELSE parts[1] \o sep \o JoinWith(Tail(parts), sep)

\* a field that contains a comma is wrapped in double quotes, as it is
format_field(f) ==
  IF "," \in Range(f) THEN <<"\"">> \o f \o <<"\"">> ELSE f

RECURSIVE TsvHandler_write(_)
\* TsvHandler::write: each row joined by tabs and followed by a newline
TsvHandler_write(data) ==
  IF data = <<>> THEN <<>>
  ELSE JoinWith([i \in DOMAIN data[1] |-> format_field(data[1][i])], <<"\t">>)
         \o <<"\n">> \o TsvHandler_write(Tail(data))

\* the csv reader (delimiter tab, quoting, double_quote, flexible, no
\* headers): its state while it scans the text
ReaderStart == [st |-> "StartRecord", field |-> <<>>, row |-> <<>>, rows |-> <<>>]

EndField(s, st) ==
  [s EXCEPT !.row = Append(s.row, s.field), !.field = <<>>, !.st = st]

EndRecord(s) ==
  [st |-> "StartRecord", field |-> <<>>, row |-> <<>>,
   rows |-> Append(s.rows, Append(s.row, s.field))]

\* one character read in state s
ReaderStep(s, c) ==
  IF s.st = "StartRecord" /\ c = "\n" THEN s
  ELSE IF s.st \in {"StartRecord", "StartField"}
    THEN IF c = "\"" THEN [s EXCEPT !.st = "InQuotedField"]
         ELSE IF c = "\t" THEN EndField(s, "StartField")
         ELSE IF c = "\n" THEN EndRecord(s)
         ELSE [s EXCEPT !.st = "InField", !.field = Append(@, c)]
  ELSE IF s.st = "InField"
    THEN IF c = "\t" THEN EndField(s, "StartField")
         ELSE IF c = "\n" THEN EndRecord(s)
         ELSE [s EXCEPT !.field = Append(@, c)]
  ELSE IF s.st = "InQuotedField"
    THEN IF c = "\"" THEN [s EXCEPT !.st = "InDoubleEscapedQuote"]
         ELSE [s EXCEPT !.field = Append(@, c)]
  ELSE \* InDoubleEscapedQuote: a quote was read inside a quoted field
       IF c = "\"" THEN [s EXCEPT !.st = "InQuotedField", !.field = Append(@, c)]
       ELSE IF c = "\t" THEN EndField(s, "StartField")
       ELSE IF c = "\n" THEN EndRecord(s)
       ELSE [s EXCEPT !.st = "InField", !.field = Append(@, c)]

RECURSIVE ReaderScan(_, _)
ReaderScan(s, text) ==
  IF text = <<>>
    THEN IF s.st = "StartRecord" THEN s.rows ELSE EndRecord(s).rows
    ELSE ReaderScan(ReaderStep(s, Head(text)), Tail(text))

\* TsvHandler::read: the records of the text
TsvHandler_read(text) == ReaderScan(ReaderStart, text)

InitTsv ==
  /\ files = EmptyMap /\ file_cache = EmptyMap /\ disk = EmptyMap
  /\ casc_open = FALSE /\ archive = {} /\ dry_run = FALSE
  /\ pc = "tsv" /\ idx = 0 /\ binding = "none"
  /\ results = [i \in ModIds |-> "pending"]
  /\ ncalls = 0 /\ last = NoCall /\ pending = EmptyMap /\ order = <<>> /\ nflush = 0
  /\ IdleRuntime
  /\ tsv_data \in Tables
  /\ tsv_text = <<>>
  /\ tsv_rows = <<>>
  /\ tsv_table = <<>>
  /\ IdleNum /\ IdleEngine /\ IdleLock /\ IdleJson /\ IdleDl

TsvWrite ==
  /\ pc = "tsv"
  /\ tsv_text' = TsvHandler_write(tsv_data)
  /\ pc' = "tsv_written"
  /\ UNCHANGED <<hostvars, ncalls, rtvars, tsv_data, tsv_rows, tsv_table>>

TsvRead ==
  /\ pc = "tsv_written"
  /\ tsv_rows' = TsvHandler_read(tsv_text)
  /\ pc' = "tsv_read"
  /\ UNCHANGED <<hostvars, ncalls, rtvars, tsv_data, tsv_text, tsv_table>>

NextTsv == TsvWrite \/ TsvRead

SpecTsv == InitTsv /\ [][NextTsv]_vars

(***************************************************************************)
(* readTsv / writeTsv of the InfiniteApi Lua binding.  A row is given to   *)
(* the script as a Lua table holding each cell under its header name and   *)
(* under its 1-based column index; the script assigns or clears keys; the  *)
(* binding rebuilds the rows from the table.                               *)
(***************************************************************************)
\* the cell values of the files and of the script
Cells == {"", "v1", "v2"}
\* a file of a header row and one data row
CellTables == UNION { { <<Header(n), r>> : r \in [1..n -> Cells] } : n \in 1..MaxCols }

Min(a, b) == IF a < b THEN a ELSE b

\* readTsv: the Lua table of one data row
readTsv_row(headers, row) ==
  [named |-> [h \in { headers[j] : j \in 1..Min(Len(row), Len(headers)) } |->
                row[CHOOSE j \in 1..Min(Len(row), Len(headers)) : headers[j] = h]],
   pos |-> [j \in 1..Len(row) |-> row[j]]]

\* readTsv: the rows under 1.., the header list under __headers__
readTsv(rows) ==
  IF rows = <<>> THEN [headers |-> <<>>, rows |-> <<>>]
  ELSE [headers |-> rows[1],
        rows |-> [i \in 1..(Len(rows) - 1) |-> readTsv_row(rows[1], rows[i + 1])]]

\* variant: the value under the header name is preferred to the positional one
writeTsv_cell_name_first(headers, r, j) ==
  IF j <= Len(headers) /\ headers[j] \in DOMAIN r.named THEN r.named[headers[j]]
  ELSE IF j \in DOMAIN r.pos THEN r.pos[j]
  ELSE ""

\* writeTsv: the cell of column j: the positional value first, the value
\* under the header name only when there is no positional value
writeTsv_cell(headers, r, j) ==
  IF j \in DOMAIN r.pos THEN r.pos[j]
  ELSE IF j <= Len(headers)
    THEN IF headers[j] \in DOMAIN r.named THEN r.named[headers[j]] ELSE ""
  ELSE ""

\* writeTsv with a header list: the header row, then every row rebuilt over
\* the columns of the header list
writeTsv(t) ==
  <<t.headers>> \o
    [i \in 1..Len(t.rows) |->
       [j \in 1..Len(t.headers) |-> writeTsv_cell(t.headers, t.rows[i], j)]]

\* t[1][k] = v for a header name or a column index k; v = "nil" clears the key
SetKey(f, k, v) ==
  IF v = "nil" THEN [x \in (DOMAIN f) \ {k} |-> f[x]] ELSE Put(f, k, v)

InitLuaTsv ==
  /\ files = EmptyMap /\ file_cache = EmptyMap /\ disk = EmptyMap
  /\ casc_open = FALSE /\ archive = {} /\ dry_run = FALSE
  /\ pc = "lua_tsv" /\ idx = 0 /\ binding = "none"
  /\ results = [i \in ModIds |-> "pending"]
  /\ ncalls = 0 /\ last = NoCall /\ pending = EmptyMap /\ order = <<>> /\ nflush = 0
  /\ IdleRuntime
  /\ tsv_data \in CellTables
  /\ tsv_text = <<>>
  /\ tsv_rows = <<>>
  /\ tsv_table = <<>>
  /\ IdleNum /\ IdleEngine /\ IdleLock /\ IdleJson /\ IdleDl

LuaReadTsv ==
  /\ pc = "lua_tsv"
  /\ tsv_table' = readTsv(tsv_data)
  /\ pc' = "lua_script"
  /\ UNCHANGED <<hostvars, ncalls, rtvars, tsv_data, tsv_text, tsv_rows>>

\* the script assigns a cell of the row by header name
ScriptSetNamed ==
  /\ pc = "lua_script" /\ ncalls < MaxCalls
  /\ \E j \in DOMAIN tsv_table.headers, v \in Cells \cup {"nil"} :
       tsv_table' = [tsv_table EXCEPT !.rows[1].named = SetKey(@, tsv_table.headers[j], v)]
  /\ ncalls' = ncalls + 1
  /\ UNCHANGED <<hostvars, pc, rtvars, tsv_data, tsv_text, tsv_rows>>

\* the script assigns a cell of the row by column index
ScriptSetPos ==
  /\ pc = "lua_script" /\ ncalls < MaxCalls
  /\ \E j \in DOMAIN tsv_table.headers, v \in Cells \cup {"nil"} :
       tsv_table' = [tsv_table EXCEPT !.rows[1].pos = SetKey(@, j, v)]
  /\ ncalls' = ncalls + 1
  /\ UNCHANGED <<hostvars, pc, rtvars, tsv_data, tsv_text, tsv_rows>>

LuaWriteTsv ==
  /\ pc = "lua_script"
  /\ tsv_rows' = writeTsv(tsv_table)
  /\ pc' = "lua_written"
  /\ UNCHANGED <<hostvars, ncalls, rtvars, tsv_data, tsv_text, tsv_table>>

NextLuaTsv == LuaReadTsv \/ ScriptSetNamed \/ ScriptSetPos \/ LuaWriteTsv

SpecLuaTsv == InitLuaTsv /\ [][NextLuaTsv]_vars

(***************************************************************************)
(* Numbers across the engine boundary: json_to_rquickjs / rquickjs_to_json *)
(* and json_to_lua_value / lua_value_to_json.  A serde_json integer is an  *)
(* i64; it is kept here as its four 16-bit limbs in two's complement,      *)
(* least significant first, so that every width is the code's own.         *)
(***************************************************************************)
LimbMax == 65535
LimbVals == {0, 1, 32767, 32768, LimbMax}
\* top limbs of the integers n with -2^53 < n < 2^53
TopLimbs == {0, 31, 65504, LimbMax}

\* the integers a JSON file can hold that fit 53 bits
Ints53 ==
  { <<a, b, c, d>> : a \in LimbVals, b \in LimbVals, c \in LimbVals, d \in TopLimbs }
    \ { <<0, 0, 0, 65504>> }

\* Rust `i as i32`: keeps the low 32 bits
as_i32(i) == <<i[1], i[2]>>

\* Rust i32 -> i64 (`i.into()`): sign extension
i32_into_i64(w) ==
  LET s == IF w[2] >= 32768 THEN LimbMax ELSE 0 IN <<w[1], w[2], s, s>>

\* JsonValue::Number(n) with n.as_i64() = Some(i) becomes Value::new_int(i as i32)
json_to_rquickjs(n) == [tag |-> "int", bits |-> as_i32(n)]

\* val.as_int() = Some(i) becomes JsonValue::Number(i.into()); a float that holds
\* an integer goes through Number::from_f64
rquickjs_to_json(v) == IF v.tag = "int" THEN i32_into_i64(v.bits) ELSE v.bits

\* n.as_i64() = Some(i) becomes LuaValue::Integer(i)
json_to_lua_value(n) == [tag |-> "Integer", bits |-> n]

\* LuaValue::Integer(i) becomes JV::Number(i.into())
lua_value_to_json(v) == v.bits

InitNum ==
  /\ files = EmptyMap /\ file_cache = EmptyMap /\ disk = EmptyMap
  /\ casc_open = FALSE /\ archive = {} /\ dry_run = FALSE
  /\ pc = "num" /\ idx = 0
  /\ binding \in {"lua", "js"}
  /\ results = [i \in ModIds |-> "pending"]
  /\ ncalls = 0 /\ last = NoCall /\ pending = EmptyMap /\ order = <<>> /\ nflush = 0
  /\ IdleRuntime /\ IdleTsv /\ IdleEngine /\ IdleLock /\ IdleJson /\ IdleDl
  /\ num_json \in Ints53
  /\ num_engine = <<>>
  /\ num_back = <<>>

numframe == <<files, file_cache, disk, casc_open, archive, dry_run, idx, binding, results,
              ncalls, last, pending, order, nflush, rtvars, tsvvars, num_json, engvars, lockvars,
    jsonvars, dlvars>>

\* readJson in the JavaScript runtime
JsFromJson ==
  /\ pc = "num" /\ binding = "js"
  /\ num_engine' = json_to_rquickjs(num_json)
  /\ pc' = "num_engine"
  /\ UNCHANGED <<numframe, num_back>>

\* writeJson in the JavaScript runtime
JsToJson ==
  /\ pc = "num_engine" /\ binding = "js"
  /\ num_back' = rquickjs_to_json(num_engine)
  /\ pc' = "num_back"
  /\ UNCHANGED <<numframe, num_engine>>

\* readJson in the Lua runtime
LuaFromJson ==
  /\ pc = "num" /\ binding = "lua"
  /\ num_engine' = json_to_lua_value(num_json)
  /\ pc' = "num_engine"
  /\ UNCHANGED <<numframe, num_back>>

\* writeJson in the Lua runtime
LuaToJson ==
  /\ pc = "num_engine" /\ binding = "lua"
  /\ num_back' = lua_value_to_json(num_engine)
  /\ pc' = "num_back"
  /\ UNCHANGED <<numframe, num_engine>>

NextNum == JsFromJson \/ JsToJson \/ LuaFromJson \/ LuaToJson

SpecNum == InitNum /\ [][NextNum]_vars

(***************************************************************************)
(* Script engines: what an engine holds when a mod's script starts.  An    *)
(* engine is its global table: the host functions that were disabled, the  *)
(* API and config globals, and the globals scripts defined, each with the  *)
(* mod whose script defined it.                                            *)
(***************************************************************************)
Dangerous ==
  {"os.execute", "os.remove", "os.rename", "io", "loadfile", "dofile", "require", "package"}

\* names a script may define: a variable and a function
GlobalNames == {"g", "f"}

\* mlua Lua::new(): a fresh state with the standard library
Lua_new == [kind |-> "lua", globals |-> {}, config |-> 0, disabled |-> {}, api |-> FALSE]

\* ModExecutor::new: a fresh state in which the dangerous functions are set to nil
ModExecutor_new == [Lua_new EXCEPT !.kind = "executor", !.disabled = Dangerous]

\* ModExecutor::execute_mod up to the start of the script, on the executor's state
ModExecutor_execute_mod(e, m) == [e EXCEPT !.api = TRUE, !.config = m]

\* variant: one Lua state is kept and handed to every runtime
LuaScriptRuntime_new_shared == [engine EXCEPT !.kind = "lua"]

\* LuaScriptRuntime::new: Lua::new() and nothing else
LuaScriptRuntime_new == Lua_new

\* JavaScriptRuntime::new: Runtime::new() and Context::full
JavaScriptRuntime_new ==
  [kind |-> "js", globals |-> {}, config |-> 0, disabled |-> {}, api |-> FALSE]

\* setup_api and setup_config of a ScriptRuntime, for mod m
Runtime_setup(e, m) == [e EXCEPT !.api = TRUE, !.config = m]

\* the orchestrator builds one engine for each mod, of the mod's binding
BuildEngine(b, m) ==
  IF b = "executor" THEN ModExecutor_execute_mod(ModExecutor_new, m)
  ELSE IF b = "lua" THEN Runtime_setup(LuaScriptRuntime_new, m)
  ELSE Runtime_setup(JavaScriptRuntime_new, m)

\* a script statement that assigns a global
script_set_global(e, g, m) == [e EXCEPT !.globals = @ \cup {<<g, m>>}]

InitEngine ==
  /\ files = EmptyMap /\ file_cache = EmptyMap /\ disk = EmptyMap
  /\ casc_open = FALSE /\ archive = {} /\ dry_run = FALSE
  /\ pc = "loop" /\ idx = 1 /\ binding = "none"
  /\ results = [i \in ModIds |-> "pending"]
  /\ ncalls = 0 /\ last = NoCall /\ pending = EmptyMap /\ order = <<>> /\ nflush = 0
  /\ IdleRuntime /\ IdleTsv /\ IdleNum /\ IdleEngine /\ IdleLock /\ IdleJson /\ IdleDl

engframe ==
  <<files, file_cache, disk, casc_open, archive, dry_run, last, pending, order, nflush,
    rtvars, tsvvars, numvars, lockvars,
    jsonvars, dlvars>>

\* install_mods: the loop body up to the start of the mod's script
EngineStart ==
  /\ pc = "loop" /\ idx <= NumMods
  /\ binding' \in Bindings
  /\ engine' = BuildEngine(binding', idx)
  /\ seen' = engine'.globals
  /\ results' = [results EXCEPT ![idx] = "running"]
  /\ pc' = "script"
  /\ UNCHANGED <<engframe, idx, ncalls>>

\* the script defines a global variable or function
ScriptSetGlobal ==
  /\ pc = "script" /\ ncalls < MaxCalls
  /\ \E g \in GlobalNames : engine' = script_set_global(engine, g, idx)
  /\ ncalls' = ncalls + 1
  /\ UNCHANGED <<engframe, pc, idx, binding, results, seen>>

\* the script returns or fails; install_mods goes on to the next mod
EngineEnd ==
  /\ pc = "script"
  /\ \E r \in {"ok", "failed"} : results' = [results EXCEPT ![idx] = r]
  /\ idx' = idx + 1
  /\ pc' = "loop"
  /\ UNCHANGED <<engframe, binding, ncalls, engine, seen>>

\* the loop is over
EngineDone ==
  /\ pc = "loop" /\ idx > NumMods
  /\ pc' = "done"
  /\ UNCHANGED <<engframe, idx, binding, results, ncalls, engine, seen>>

NextEngine == EngineStart \/ ScriptSetGlobal \/ EngineEnd \/ EngineDone

SpecEngine == InitEngine /\ [][NextEngine]_vars

(***************************************************************************)
(* The lock around the FileManager.  Two host calls are issued at the same *)
(* time, one through Context (mod 1) and one through ScriptServices; each  *)
(* is the sequence of FileManager calls its function makes while it holds  *)
(* the guard of file_manager.write().await.                                *)
(***************************************************************************)
Tasks == {1, 2}
TaskActor(t) == IF t = 1 THEN ModName(1) ELSE ScriptActor

\* the host calls a task may be: a read, or a write of a value
TaskCalls ==
  { [op |-> "read", path |-> p, val |-> 0, step |-> "wait"] : p \in RawPaths }
    \cup { [op |-> "write", path |-> p, val |-> v, step |-> "wait"] :
             p \in RawPaths, v \in Vals }

\* variant: the guard is a shared one (read()), which does not exclude the other task
RwLock_write_shared(l, t) == TRUE

\* tokio RwLock::write().await returns when no other guard is held
RwLock_write(l, t) == l = 0

InitLock ==
  /\ files = EmptyMap /\ file_cache = EmptyMap /\ disk = EmptyMap
  /\ casc_open \in BOOLEAN
  /\ archive = (IF casc_open THEN ArchiveEntries ELSE {})
  /\ dry_run = FALSE
  /\ pc = "lock" /\ idx = 0 /\ binding = "none"
  /\ results = [i \in ModIds |-> "pending"]
  /\ ncalls = 0 /\ last = NoCall /\ pending = EmptyMap /\ order = <<>> /\ nflush = 0
  /\ IdleRuntime /\ IdleTsv /\ IdleNum /\ IdleEngine /\ IdleJson /\ IdleDl
  /\ lock = 0
  /\ task \in [Tasks -> TaskCalls]

lockframe ==
  <<casc_open, archive, dry_run, pc, idx, binding, results, ncalls, last, pending, order,
    nflush, rtvars, tsvvars, numvars, engvars, jsonvars, dlvars>>

Goto(t, step) == task' = [task EXCEPT ![t].step = step]

\* let mut fm = file_manager.write().await
TaskLock(t) ==
  /\ task[t].step = "wait"
  /\ RwLock_write(lock, t)
  /\ lock' = t
  /\ Goto(t, "locked")
  /\ UNCHANGED <<fmvars, lockframe>>

\* a read: fm.read_file_with_cache
TaskReadCache(t) ==
  /\ task[t].op = "read" /\ task[t].step = "locked"
  /\ LET r == read_file_with_cache(files, file_cache, disk, task[t].path, TaskActor(t))
     IN /\ files' = r.files
        /\ Goto(t, IF r.ok THEN "unlock" ELSE "extract")
  /\ UNCHANGED <<file_cache, disk, lock, lockframe>>

\* a read: fm.ensure_extracted
TaskExtract(t) ==
  /\ task[t].op = "read" /\ task[t].step = "extract"
  /\ LET e == ensure_extracted(files, disk, archive, casc_open, task[t].path, TaskActor(t))
     IN /\ files' = e.files
        /\ disk' = e.disk
        /\ Goto(t, IF e.ok THEN "record" ELSE "unlock")
  /\ UNCHANGED <<file_cache, lock, lockframe>>

\* a read: fm.record_read
TaskRecordRead(t) ==
  /\ task[t].op = "read" /\ task[t].step = "record"
  /\ files' = record_read(files, task[t].path, TaskActor(t))
  /\ Goto(t, "unlock")
  /\ UNCHANGED <<file_cache, disk, lock, lockframe>>

\* a write: write_file_to_cache, self.file_cache.insert
TaskCacheInsert(t) ==
  /\ task[t].op = "write" /\ task[t].step = "locked"
  /\ file_cache' = write_file_to_cache(files, file_cache, disk, task[t].path,
                                       Serialize(FormatOf(task[t].val), task[t].val),
                                       TaskActor(t)).cache
  /\ Goto(t, "record")
  /\ UNCHANGED <<files, disk, lock, lockframe>>

\* a write: write_file_to_cache, self.record_write
TaskRecordWrite(t) ==
  /\ task[t].op = "write" /\ task[t].step = "record"
  /\ files' = record_write(files, task[t].path, TaskActor(t))
  /\ Goto(t, "unlock")
  /\ UNCHANGED <<file_cache, disk, lock, lockframe>>

\* the guard is dropped at the end of the function
TaskUnlock(t) ==
  /\ task[t].step = "unlock"
  /\ lock' = IF lock = t THEN 0 ELSE lock
  /\ Goto(t, "done")
  /\ UNCHANGED <<fmvars, lockframe>>

NextLock ==
  \/ \E t \in Tasks : TaskLock(t)
  \/ \E t \in Tasks : TaskReadCache(t)
  \/ \E t \in Tasks : TaskExtract(t)
  \/ \E t \in Tasks : TaskRecordRead(t)
  \/ \E t \in Tasks : TaskCacheInsert(t)
  \/ \E t \in Tasks : TaskRecordWrite(t)
  \/ \E t \in Tasks : TaskUnlock(t)

SpecLock == InitLock /\ [][NextLock]_vars

(***************************************************************************)
(* Whole JSON values across the engine boundary.  A serde_json::Value is   *)
(* a tagged tuple: <<"Null">>, <<"Bool", b>>, <<"Number", limbs>>,          *)
(* <<"String", s>>, <<"Array", items>> and <<"Object", members>>, the      *)
(* members being <<key, value>> pairs in the order of the Map.  An engine  *)
(* value is a record with a tag; a Lua table and a JavaScript object hold  *)
(* their <<key, value>> pairs in the order they were set.                  *)
(***************************************************************************)
JsonDepth == 2
MaxItems == 2

JNull == <<"Null">>
JBool(b) == <<"Bool", b>>
JNumber(n) == <<"Number", n>>
JString(s) == <<"String", s>>
JArray(a) == <<"Array", a>>
JObject(m) == <<"Object", m>>

JsonKeys == {"k"}

\* 1 and 2^31
JsonLeaves == {JNull, JNumber(<<1, 0, 0, 0>>), JNumber(<<0, 32768, 0, 0>>)}

RECURSIVE JsonValues(_)
JsonValues(d) ==
  IF d = 0 THEN JsonLeaves
  ELSE LET S == JsonValues(d - 1) IN
       JsonLeaves
         \cup { JArray(a) : a \in UNION { [1..n -> S] : n \in 0..MaxItems } }
         \cup { JObject(<<>>) }
         \cup { JObject(<< <<k, v>> >>) : k \in JsonKeys, v \in S }

JsonInputs == JsonValues(JsonDepth) \cup {JBool(TRUE), JBool(FALSE), JString("s")}

LuaNil == [tag |-> "Nil"]

\* Table::set: assigning nil to a key of a new table stores nothing
table_set(t, k, v) == IF v.tag = "Nil" THEN t ELSE Append(t, <<k, v>>)

\* Table::get: nil for a key the table does not hold
table_get(t, k) ==
  IF \E i \in DOMAIN t : t[i][1] = k
  THEN t[CHOOSE i \in DOMAIN t : t[i][1] = k][2]
  ELSE LuaNil

\* serde_json::Map::insert
map_insert(m, k, v) ==
  IF \E i \in DOMAIN m : m[i][1] = k
  THEN [i \in DOMAIN m |-> IF m[i][1] = k THEN <<k, v>> ELSE m[i]]
  ELSE Append(m, <<k, v>>)

RECURSIVE JsonToLuaValue(_), LuaSetItems(_, _, _), LuaSetMembers(_, _, _)
\* JV::Array: table.set(i + 1, json_to_lua_value(lua, item))
LuaSetItems(arr, i, t) ==
  IF i > Len(arr) THEN t
  ELSE LuaSetItems(arr, i + 1, table_set(t, <<"Integer", i>>, JsonToLuaValue(arr[i])))

\* JV::Object: table.set(k.as_str(), json_to_lua_value(lua, v))
LuaSetMembers(obj, i, t) ==
  IF i > Len(obj) THEN t
  ELSE LuaSetMembers(obj, i + 1,
                     table_set(t, <<"String", obj[i][1]>>, JsonToLuaValue(obj[i][2])))

\* json_to_lua_value
JsonToLuaValue(j) ==
  CASE j[1] = "Null" -> LuaNil
    [] j[1] = "Bool" -> [tag |-> "Boolean", b |-> j[2]]
    [] j[1] = "Number" -> json_to_lua_value(j[2])
    [] j[1] = "String" -> [tag |-> "String", s |-> j[2]]
    [] j[1] = "Array" -> [tag |-> "Table", pairs |-> LuaSetItems(j[2], 1, <<>>)]
    [] j[1] = "Object" -> [tag |-> "Table", pairs |-> LuaSetMembers(j[2], 1, <<>>)]

\* the first loop of the Table arm: every key is a positive integer
is_array(t) == \A i \in DOMAIN t : t[i][1][1] = "Integer" /\ t[i][1][2] > 0

\* the largest key the first loop saw
max_idx(t) ==
  IF t = <<>> THEN 0
  ELSE CHOOSE n \in { t[i][1][2] : i \in DOMAIN t } :
         \A i \in DOMAIN t : t[i][1][2] <= n

RECURSIVE LuaValueToJson(_), LuaArrayItems(_, _, _, _), LuaObjectMembers(_, _, _)
\* for i in 1..=max_idx: a nil at i ends the list
LuaArrayItems(t, i, n, arr) ==
  IF i > n THEN arr
  ELSE LET val == table_get(t, <<"Integer", i>>) IN
       IF val.tag = "Nil" THEN arr
       ELSE LuaArrayItems(t, i + 1, n, Append(arr, LuaValueToJson(val)))

\* for pair in table.pairs::<String, LuaValue>()
LuaObjectMembers(t, i, obj) ==
  IF i > Len(t) THEN obj
  ELSE LuaObjectMembers(t, i + 1, map_insert(obj, t[i][1][2], LuaValueToJson(t[i][2])))

\* lua_value_to_json
LuaValueToJson(v) ==
  CASE v.tag = "Nil" -> JNull
    [] v.tag = "Boolean" -> JBool(v.b)
    [] v.tag = "Integer" -> JNumber(lua_value_to_json(v))
    [] v.tag = "String" -> JString(v.s)
    [] v.tag = "Table" ->
         IF is_array(v.pairs) /\ max_idx(v.pairs) > 0
         THEN JArray(LuaArrayItems(v.pairs, 1, max_idx(v.pairs), <<>>))
         ELSE JObject(LuaObjectMembers(v.pairs, 1, <<>>))

RECURSIVE JsonToRquickjs(_)
\* json_to_rquickjs
JsonToRquickjs(j) ==
  CASE j[1] = "Null" -> [tag |-> "undefined"]
    [] j[1] = "Bool" -> [tag |-> "bool", b |-> j[2]]
    [] j[1] = "Number" -> json_to_rquickjs(j[2])
    [] j[1] = "String" -> [tag |-> "string", s |-> j[2]]
    [] j[1] = "Array" ->
         [tag |-> "array", items |-> [i \in DOMAIN j[2] |-> JsonToRquickjs(j[2][i])]]
    [] j[1] = "Object" ->
         [tag |-> "object",
          props |-> [i \in DOMAIN j[2] |-> <<j[2][i][1], JsonToRquickjs(j[2][i][2])>>]]

RECURSIVE RquickjsToJson(_), JsObjectMembers(_, _, _)
\* for prop in obj.props::<String, Value>()
JsObjectMembers(props, i, obj) ==
  IF i > Len(props) THEN obj
  ELSE JsObjectMembers(props, i + 1, map_insert(obj, props[i][1], RquickjsToJson(props[i][2])))

\* rquickjs_to_json
RquickjsToJson(v) ==
  CASE v.tag = "undefined" -> JNull
    [] v.tag = "bool" -> JBool(v.b)
    [] v.tag = "int" -> JNumber(rquickjs_to_json(v))
    [] v.tag = "string" -> JString(v.s)
    [] v.tag = "array" -> JArray([i \in DOMAIN v.items |-> RquickjsToJson(v.items[i])])
    [] v.tag = "object" -> JObject(JsObjectMembers(v.props, 1, <<>>))

InitJson ==
  /\ files = EmptyMap /\ file_cache = EmptyMap /\ disk = EmptyMap
  /\ casc_open = FALSE /\ archive = {} /\ dry_run = FALSE
  /\ pc = "jv" /\ idx = 0
  /\ binding \in {"lua", "js"}
  /\ results = [i \in ModIds |-> "pending"]
  /\ ncalls = 0 /\ last = NoCall /\ pending = EmptyMap /\ order = <<>> /\ nflush = 0
  /\ IdleRuntime /\ IdleTsv /\ IdleNum /\ IdleEngine /\ IdleLock /\ IdleDl
  /\ jv_json \in JsonInputs
  /\ jv_engine = <<>>
  /\ jv_back = <<>>

jsonframe ==
  <<files, file_cache, disk, casc_open, archive, dry_run, idx, binding, results, ncalls,
    last, pending, order, nflush, rtvars, tsvvars, numvars, engvars, lockvars, dlvars,
    jv_json>>

\* readJson in the JavaScript runtime: the value Context::read_json returned
JsReadJson ==
  /\ pc = "jv" /\ binding = "js"
  /\ jv_engine' = JsonToRquickjs(jv_json)
  /\ pc' = "jv_engine"
  /\ UNCHANGED <<jsonframe, jv_back>>

\* writeJson in the JavaScript runtime: the value handed to Context::write_json
JsWriteJson ==
  /\ pc = "jv_engine" /\ binding = "js"
  /\ jv_back' = RquickjsToJson(jv_engine)
  /\ pc' = "jv_back"
  /\ UNCHANGED <<jsonframe, jv_engine>>

\* readJson in the Lua runtime
LuaReadJson ==
  /\ pc = "jv" /\ binding = "lua"
  /\ jv_engine' = JsonToLuaValue(jv_json)
  /\ pc' = "jv_engine"
  /\ UNCHANGED <<jsonframe, jv_back>>

\* writeJson in the Lua runtime
LuaWriteJson ==
  /\ pc = "jv_engine" /\ binding = "lua"
  /\ jv_back' = LuaValueToJson(jv_engine)
  /\ pc' = "jv_back"
  /\ UNCHANGED <<jsonframe, jv_engine>>

NextJson == JsReadJson \/ JsWriteJson \/ LuaReadJson \/ LuaWriteJson

SpecJson == InitJson /\ [][NextJson]_vars

(***************************************************************************)
(* read_tsv / write_tsv of ScriptServices.  The file is a text; read_tsv   *)
(* parses it into rows and turns them into a TsvData (the header list and, *)
(* per data row, a map from header name to cell); the script changes the   *)
(* maps; write_tsv rebuilds the rows over the header list and caches the   *)
(* text.                                                                   *)
(***************************************************************************)
\* the file scripts read and write
TsvPath == <<"a">>
\* column names of the files, and a name no file has
HeaderNames == { <<"x">>, <<"y">> }
ForeignNames == { <<"z">> }
\* the cells of a file as they are spelled in its text
FileCells == { <<>>, <<"x">>, <<"\"", ",", "\"">>, <<"\"", "\t", "\"">> }
\* the cells a script assigns
ScriptCells == { <<>>, <<"x">>, <<",">> }

\* the text of a file: a header line and a data line, whose number of
\* fields need not be the header's
TsvLine(row) == JoinWith(row, <<"\t">>)
TsvFiles ==
  { TsvLine(h) \o <<"\n">> \o TsvLine(r) :
      h \in UNION { [1..n -> HeaderNames] : n \in 1..MaxCols },
      r \in UNION { [1..k -> FileCells] : k \in 0..(MaxCols + 1) } }

\* the HashMap of one data row: fields beyond the header count are
\* skipped, a later column of the same name replaces an earlier one
tsv_row_data(headers, row) ==
  LET n == Min(Len(row), Len(headers))
  IN [h \in { headers[i] : i \in 1..n } |->
        row[CHOOSE i \in 1..n : headers[i] = h /\ \A k \in 1..n : headers[k] = h => k <= i]]

\* ScriptServices::tsv_rows_to_data
tsv_rows_to_data(rows) ==
  IF rows = <<>> THEN [ok |-> TRUE, headers |-> <<>>, rows |-> <<>>]
  ELSE [ok |-> TRUE, headers |-> rows[1],
        rows |-> [i \in 1..(Len(rows) - 1) |-> tsv_row_data(rows[1], rows[i + 1])]]

RECURSIVE SelectPresent(_, _, _)
SelectPresent(headers, data, j) ==
  IF j > Len(headers) THEN <<>>
  ELSE (IF headers[j] \in DOMAIN data THEN <<data[headers[j]]>> ELSE <<>>)
         \o SelectPresent(headers, data, j + 1)

\* variant: a header the row lacks gets no field
write_tsv_row_skip_missing(headers, data) == SelectPresent(headers, data, 1)

\* write_tsv: row_vec, one field per header, empty for a header the row lacks
write_tsv_row(headers, data) ==
  [j \in 1..Len(headers) |-> IF headers[j] \in DOMAIN data THEN data[headers[j]] ELSE <<>>]

\* write_tsv: the rows it serialises and the text it caches
write_tsv(data) ==
  LET rows == <<data.headers>> \o
                [i \in 1..Len(data.rows) |-> write_tsv_row(data.headers, data.rows[i])]
  IN [ok |-> TRUE, rows |-> rows,
      content |-> JoinWith([i \in DOMAIN rows |->
                              JoinWith([j \in DOMAIN rows[i] |-> format_field(rows[i][j])],
                                       <<"\t">>)],
                           <<"\n">>)]

NoTsvData == [headers |-> <<>>, rows |-> <<>>]

InitSvcTsv ==
  /\ files = EmptyMap /\ file_cache = EmptyMap
  /\ \E text \in TsvFiles : disk = Put(EmptyMap, TsvPath, text)
  /\ casc_open = FALSE /\ archive = {} /\ dry_run = FALSE
  /\ pc = "svc_tsv" /\ idx = 0 /\ binding = "lua"
  /\ results = [i \in ModIds |-> "pending"]
  /\ ncalls = 0 /\ last = NoCall /\ pending = EmptyMap /\ order = <<>> /\ nflush = 0
  /\ IdleRuntime
  /\ tsv_data = NoTsvData
  /\ tsv_text = <<>>
  /\ tsv_rows = <<>>
  /\ tsv_table = <<>>
  /\ IdleNum /\ IdleEngine /\ IdleLock /\ IdleJson /\ IdleDl

svcframe ==
  <<casc_open, archive, dry_run, idx, binding, results, pending, order, nflush, rtvars,
    numvars, engvars, lockvars, jsonvars, dlvars, tsv_table>>

\* ScriptServices::read_tsv of a file that is cached or in the output root
SvcReadTsv ==
  /\ pc = "svc_tsv"
  /\ LET r == read_file_with_cache(files, file_cache, disk, TsvPath, ScriptActor)
         d == tsv_rows_to_data(TsvHandler_read(r.content))
     IN /\ r.ok
        /\ files' = r.files
        /\ tsv_data' = [headers |-> d.headers, rows |-> d.rows]
        /\ last' = [NoCall EXCEPT !.op = "read_tsv", !.binding = binding, !.path = TsvPath,
                                  !.ok = d.ok]
  /\ pc' = "svc_script"
  /\ UNCHANGED <<svcframe, file_cache, disk, ncalls, tsv_text, tsv_rows>>

\* the script assigns a cell of the first row
SvcScriptSet ==
  /\ pc = "svc_script" /\ ncalls < MaxCalls /\ tsv_data.rows # <<>>
  /\ \E h \in HeaderNames \cup ForeignNames, v \in ScriptCells :
       tsv_data' = [headers |-> tsv_data.headers,
                    rows |-> <<Put(tsv_data.rows[1], h, v)>> \o Tail(tsv_data.rows)]
  /\ ncalls' = ncalls + 1
  /\ UNCHANGED <<svcframe, files, file_cache, disk, last, pc, tsv_text, tsv_rows>>

\* the script removes a cell of the first row
SvcScriptRemove ==
  /\ pc = "svc_script" /\ ncalls < MaxCalls /\ tsv_data.rows # <<>>
  /\ \E h \in DOMAIN tsv_data.rows[1] :
       tsv_data' = [headers |-> tsv_data.headers,
                    rows |-> <<[x \in (DOMAIN tsv_data.rows[1]) \ {h} |-> tsv_data.rows[1][x]]>>
                               \o Tail(tsv_data.rows)]
  /\ ncalls' = ncalls + 1
  /\ UNCHANGED <<svcframe, files, file_cache, disk, last, pc, tsv_text, tsv_rows>>

\* ScriptServices::write_tsv
SvcWriteTsv ==
  /\ pc = "svc_script"
  /\ LET w == write_tsv(tsv_data)
         c == write_file_to_cache(files, file_cache, disk, TsvPath, w.content, ScriptActor)
     IN /\ tsv_rows' = w.rows
        /\ tsv_text' = w.content
        /\ files' = c.files
        /\ file_cache' = c.cache
        /\ disk' = c.disk
        /\ last' = [NoCall EXCEPT !.op = "write_tsv", !.binding = binding, !.path = TsvPath,
                                  !.ok = w.ok]
  /\ pc' = "svc_written"
  /\ UNCHANGED <<svcframe, ncalls, tsv_data>>

NextSvcTsv == SvcReadTsv \/ SvcScriptSet \/ SvcScriptRemove \/ SvcWriteTsv

SpecSvcTsv == InitSvcTsv /\ [][NextSvcTsv]_vars

(***************************************************************************)
(* GitHubDownloader.  A path is the sequence of its names below            *)
(* cache_dir/owner/repo; cache_dir is the set of the directories and files *)
(* that exist there.  The repository holds a file and a directory with one *)
(* file, and an entry that is neither a file nor a directory.              *)
(***************************************************************************)
\* repo arguments: "owner/repo" split at '/', and one without a slash
Repos == { <<"o", "r">>, <<"bad">> }
Branch == "main"
\* subdir arguments: None and Some("s")
Subdirs == { <<>>, <<"s">> }

\* the listing the GitHub Contents API returns for a directory of the repository
RepoItems(path) ==
  IF path = <<>>
    THEN << [name |-> "f", item_type |-> "file"],
            [name |-> "s", item_type |-> "dir"],
            [name |-> "l", item_type |-> "symlink"] >>
    ELSE << [name |-> "g", item_type |-> "file"] >>

\* the requests a download sends: the listing of a directory, the content of a file
Requests ==
  { <<"contents", <<>>>>, <<"contents", <<"s">>>>,
    <<"download", <<"f">>>>, <<"download", <<"s", "g">>>> }

\* fs::create_dir_all: the directory and every ancestor of it
create_dir_all(cache, dir) == cache \cup { SubSeq(dir, 1, n) : n \in 1..Len(dir) }

RECURSIVE download_directory(_, _, _, _), download_items(_, _, _, _, _)
\* the loop over the items of a listing, from item i on
download_items(cache, net, path, target_dir, i) ==
  IF i > Len(RepoItems(path)) THEN [ok |-> TRUE, cache |-> cache]
  ELSE LET item == RepoItems(path)[i]
           item_path == Append(target_dir, item.name)
       IN IF item.item_type = "file"
            THEN IF <<"download", Append(path, item.name)>> \in net
                   THEN [ok |-> FALSE, cache |-> cache]
                   ELSE download_items(cache \cup {item_path}, net, path, target_dir, i + 1)
          ELSE IF item.item_type = "dir"
            THEN LET r == download_directory(cache, net, Append(path, item.name), item_path)
                 IN IF r.ok
                      THEN download_items(r.cache, net, path, target_dir, i + 1)
                      ELSE r
          ELSE download_items(cache, net, path, target_dir, i + 1)

\* GitHubDownloader::download_directory
download_directory(cache, net, path, target_dir) ==
  IF <<"contents", path>> \in net
    THEN [ok |-> FALSE, cache |-> cache]
    ELSE download_items(create_dir_all(cache, target_dir), net, path, target_dir, 1)

\* GitHubDownloader::download; cached: the directory was returned without a request
download(cache, net, repo, subdir) ==
  LET target_dir == <<Branch>> \o subdir
  IN IF Len(repo) # 2
       THEN [ok |-> FALSE, cached |-> FALSE, cache |-> cache, target |-> <<>>]
     ELSE IF target_dir \in cache
       THEN [ok |-> TRUE, cached |-> TRUE, cache |-> cache, target |-> target_dir]
     ELSE LET r == download_directory(cache, net, subdir, target_dir)
          IN [ok |-> r.ok, cached |-> FALSE, cache |-> r.cache, target |-> target_dir]

NoDownload == [op |-> "none", ok |-> TRUE, cached |-> FALSE, target |-> <<>>]

InitDl ==
  /\ files = EmptyMap /\ file_cache = EmptyMap /\ disk = EmptyMap
  /\ casc_open = FALSE /\ archive = {} /\ dry_run = FALSE
  /\ pc = "download" /\ idx = 0 /\ binding = "none"
  /\ results = [i \in ModIds |-> "pending"]
  /\ ncalls = 0 /\ last = NoCall /\ pending = EmptyMap /\ order = <<>> /\ nflush = 0
  /\ IdleRuntime /\ IdleTsv /\ IdleNum /\ IdleEngine /\ IdleLock /\ IdleJson
  /\ cache_dir = {}
  /\ network \in SUBSET Requests
  /\ dl = [completed |-> {}, last |-> NoDownload]

dlframe ==
  <<files, file_cache, disk, casc_open, archive, dry_run, pc, idx, binding, results, ncalls,
    last, pending, order, nflush, rtvars, tsvvars, numvars, engvars, lockvars, jsonvars>>

\* a call of GitHubDownloader::download; completed: the target directories a
\* download of which ran to its end and which were not cleared since
Download ==
  /\ pc = "download"
  /\ \E repo \in Repos, subdir \in Subdirs :
       LET d == download(cache_dir, network, repo, subdir)
       IN /\ cache_dir' = d.cache
          /\ dl' = [completed |-> IF d.ok /\ ~d.cached THEN dl.completed \cup {d.target}
                                  ELSE dl.completed,
                    last |-> [op |-> "download", ok |-> d.ok, cached |-> d.cached, target |-> d.target]]
  /\ UNCHANGED <<dlframe, network>>

\* GitHubDownloader::clear_cache
ClearCache ==
  /\ pc = "download"
  /\ cache_dir # {}
  /\ cache_dir' = {}
  /\ dl' = [completed |-> {}, last |-> [NoDownload EXCEPT !.op = "clear_cache"]]
  /\ UNCHANGED <<dlframe, network>>

\* requests start or stop failing between two calls
NetworkChanges ==
  /\ pc = "download"
  /\ \E n \in SUBSET Requests : n # network /\ network' = n
  /\ UNCHANGED <<dlframe, cache_dir, dl>>

NextDl == Download \/ ClearCache \/ NetworkChanges

SpecDl == InitDl /\ [][NextDl]_vars

(***************************************************************************)
(* Properties.                                                             *)
(***************************************************************************)
LastPath == normalize_path(last.path)
\* a host call was made in this step
Called == ncalls' = ncalls + 1
Flushed == nflush' = nflush + 1
\* the output file at q was created or changed in this step
Changed(q) == q \notin DOMAIN disk \/ disk'[q] # disk[q]

\* C1: a read of a path written since the last flush succeeds with the bytes
\* of the most recent write to that normalized path (or fails to parse them);
\* it never returns other bytes and never reports the path as not found.
C1_CacheChaining ==
  (last.op = "read" /\ LastPath \in DOMAIN pending) =>
    /\ last.err # "notfound"
    /\ last.ok => last.content = pending[LastPath]

\* a read, under another spelling, of a written path whose output file holds
\* other bytes
C1_Witness ==
  /\ last.op = "read" /\ last.ok
  /\ LastPath \in DOMAIN pending
  /\ last.path # LastPath
  /\ LastPath \in DOMAIN disk
  /\ disk[LastPath] # pending[LastPath]
  /\ last.content = pending[LastPath]

\* C2: a host write changes no file of the output root.
C2_WriteNoDisk ==
  [][(Called /\ last'.op = "write") => disk' = disk]_vars

\* a write that was cached while the output file of the path holds other bytes
C2_Witness ==
  /\ last.op = "write" /\ last.ok
  /\ LastPath \in DOMAIN file_cache
  /\ file_cache[LastPath].content = last.content
  /\ LastPath \in DOMAIN disk
  /\ disk[LastPath] # last.content

\* C3: a flush_cache that succeeds has written the bytes of the last write of
\* every cached path to output_root/<normalized path>, has changed no other
\* output file, and leaves the cache empty.
C3_FlushWritesAll ==
  [][(Flushed /\ last'.ok) =>
       /\ DOMAIN file_cache' = {}
       /\ DOMAIN file_cache = DOMAIN pending
       /\ \A q \in DOMAIN pending : q \in DOMAIN disk' /\ disk'[q] = pending[q]
       /\ \A q \in (DOMAIN disk') \ (DOMAIN pending) : q \in DOMAIN disk /\ disk'[q] = disk[q]
       /\ last'.written = DOMAIN pending]_vars

\* a successful flush of two cached paths
C3_Witness ==
  /\ last.op = "flush" /\ last.ok
  /\ Cardinality(last.written) = 2
  /\ DOMAIN file_cache = {}
  /\ \A q \in last.written : q \in DOMAIN disk /\ disk[q] \in WrittenContents

\* C4: a flush_cache that follows a flush_cache with no write in between
\* writes no file and succeeds.
C4_SingleFlush ==
  [][(Flushed /\ nflush > 0 /\ DOMAIN pending = {}) =>
       (last'.ok /\ last'.written = {} /\ disk' = disk)]_vars

\* a second flush after a flush that wrote a file
C4_Witness ==
  /\ nflush = 2 /\ last.op = "flush" /\ last.ok /\ last.written = {}
  /\ \E q \in DOMAIN disk : disk[q] \in WrittenContents

\* C5: when flush_cache fails, every cache entry it has not written is still
\* in the cache.
C5_FailedFlushKeepsEntries ==
  [][(Flushed /\ ~last'.ok) =>
       \A q \in DOMAIN file_cache :
         q \notin last'.written =>
           (q \in DOMAIN file_cache' /\ file_cache'[q] = file_cache[q])]_vars

\* the bytes a mod supplies: written values and files of its directory
ModContents == WrittenContents \cup {ModFileContent}

\* C6 as stated: only a flush puts mod-supplied bytes into an output file.
C6_OnlyFlushWritesDisk ==
  [][\A q \in DOMAIN disk' :
       (Changed(q) /\ disk'[q] \in ModContents) => Flushed]_vars

\* C6 amended: bytes passed to write_* reach an output file only by a flush;
\* files of the mod directory reach it by copy_file (or by a flush).
C6_WritesOnlyByFlush ==
  [][\A q \in DOMAIN disk' :
       /\ (Changed(q) /\ disk'[q] \in WrittenContents) => Flushed
       /\ (Changed(q) /\ disk'[q] = ModFileContent) =>
            (Flushed \/ (Called /\ last'.op = "copy"))]_vars

\* a copy_file put a file of the mod directory into the output root while a
\* written value is still waiting in the cache, before any flush
C6_Witness ==
  /\ nflush = 0 /\ last.op = "copy" /\ last.ok
  /\ \E q \in DOMAIN disk : disk[q] = ModFileContent
  /\ \E q \in DOMAIN file_cache :
       file_cache[q].content \in WrittenContents /\ q \notin DOMAIN disk

\* C7: when install_mods is done every mod of the list was processed, failed
\* ones included, and flush_cache ran exactly once.
C7_SkipAndContinue ==
  pc = "done" =>
    /\ \A i \in ModIds : results[i] \in {"ok", "failed"}
    /\ nflush = 1 /\ last.op = "flush"

\* the first mod failed, the second was installed, the flush ran
C7_Witness ==
  /\ pc = "done" /\ results[1] = "failed" /\ results[NumMods] = "ok"
  /\ nflush = 1 /\ NumMods \in Range(order)

\* C8: the error function ends the script with a failure whose message
\* contains the script's message, and changes no FileManager state.
C8_ErrorCarriesMessage ==
  [][(Called /\ last'.op = "error") =>
       /\ ~last'.ok
       /\ \E m \in Msgs : Contains(last'.msg, m)
       /\ UNCHANGED fmvars]_vars

\* C9: a mod is started only when every earlier mod of the list has finished,
\* at most one mod runs at a time, and host calls are issued in list order.
C9_Sequential ==
  /\ \A i, j \in ModIds :
       (i < j /\ results[j] # "pending") => results[i] \in {"ok", "failed"}
  /\ \A i \in ModIds : results[i] = "running" <=> (pc = "script" /\ idx = i)
  /\ \A k \in 1..(Len(order) - 1) : order[k] <= order[k + 1]

\* the second mod runs after the first made a host call and finished
C9_Witness ==
  /\ results[1] \in {"ok", "failed"} /\ results[2] = "running"
  /\ Len(order) >= 2 /\ order[1] = 1 /\ order[Len(order)] = 2

\* C10: with dry-run enabled a write_* or copy_file call succeeds and leaves
\* the records, the cache and the output root unchanged.
C10_DryRunNoEffect ==
  [][(Called /\ dry_run /\ last'.op \in {"write", "copy"}) =>
       (last'.ok /\ UNCHANGED fmvars)]_vars

\* the spellings under which a path is queried
QueryPaths ==
  RawPaths \cup NPaths \cup { <<"D", "/", "b">>, <<"d", "\\", "B">> }

\* p and q differ at most in letter case and in '/' versus '\'
SameFile(p, q) ==
  /\ Len(p) = Len(q)
  /\ \A i \in DOMAIN p :
       \/ ToLowerChar(p[i]) = ToLowerChar(q[i])
       \/ {p[i], q[i]} = {"/", "\\"}

\* the pairs of different spellings of one path
SamePairs == { pq \in QueryPaths \X QueryPaths : pq[1] # pq[2] /\ SameFile(pq[1], pq[2]) }

IsNormalized(k) == \A i \in DOMAIN k : k[i] \notin {"A", "B", "D", "\\"}

\* C12: every key of the record map and of the cache is a normalized path, a
\* record's file_path is its key, and no two keys are spellings of one path.
C12_OneRecordPerPath ==
  /\ \A k \in DOMAIN files : IsNormalized(k) /\ files[k].file_path = k
  /\ \A k \in DOMAIN file_cache : IsNormalized(k)
  /\ \A k1, k2 \in DOMAIN files : SameFile(k1, k2) => k1 = k2
  /\ \A k1, k2 \in DOMAIN file_cache : SameFile(k1, k2) => k1 = k2

\* calls spelled "A" and "a" share one record holding both operations, and
\* calls spelled "D\b" made the record and the cache entry "d/b"
C12_Witness ==
  /\ last.path = <<"A">>
  /\ <<"a">> \in DOMAIN files /\ Len(files[<<"a">>].operations) >= 2
  /\ <<"d", "/", "b">> \in DOMAIN files
  /\ <<"d", "/", "b">> \in DOMAIN file_cache
  /\ Cardinality(DOMAIN files) = 2

\* the kinds of the operations logged for record st
OpTypes(st) == { st.operations[i].op_type : i \in DOMAIN st.operations }

\* C13: for every tracked path, extracted implies exists, and modified implies
\* that the operation log of the path holds a Write.
C13_RecordInvariant ==
  \A k \in DOMAIN files :
    /\ files[k].extracted => files[k].exists
    /\ files[k].modified => "Write" \in OpTypes(files[k])

\* one path extracted, read and then modified, another modified only
C13_Witness ==
  /\ \E k \in DOMAIN files :
       /\ files[k].extracted /\ files[k].exists /\ files[k].modified
       /\ OpTypes(files[k]) = {"Extract", "Read", "Write"}
  /\ \E k \in DOMAIN files :
       files[k].exists /\ ~files[k].extracted /\ files[k].modified

\* the operation log of normalized path k in record map fs
Log(fs, k) == IF k \in DOMAIN fs THEN fs[k].operations ELSE <<>>

IsPrefix(s, t) == Len(s) <= Len(t) /\ \A i \in DOMAIN s : s[i] = t[i]

Actors == { ModName(i) : i \in ModIds } \cup {ScriptActor}

\* the actor a host call of binding b for mod m is recorded under
ActorOf(b, m) == IF b = "executor" THEN ModName(m) ELSE ScriptActor

\* fs2 is fs with exactly the one entry e appended to the log of path p
AppendsOne(fs, fs2, p, e) ==
  /\ Log(fs2, normalize_path(p)) = Append(Log(fs, normalize_path(p)), e)
  /\ \A k \in (DOMAIN fs) \ {normalize_path(p)} : k \in DOMAIN fs2 /\ fs2[k] = fs[k]
  /\ DOMAIN fs2 = (DOMAIN fs) \cup {normalize_path(p)}

\* C14: each record_extract / record_read / record_write appends exactly one
\* (kind, actor) entry at the end of the log of its path and touches no other
\* log; no step, a flush included, removes, reorders or rewrites an entry that
\* is already in a log.
C14_AppendOnlyLog ==
  [][/\ (Called /\ last'.op \in {"read", "write", "copy", "extract"}) =>
          LET p == last'.path
              a == ActorOf(last'.binding, last'.mod)
          IN /\ AppendsOne(files, record_extract(files, p, a), p, FileOperation("Extract", a))
             /\ AppendsOne(files, record_read(files, p, a), p, FileOperation("Read", a))
             /\ AppendsOne(files, record_write(files, p, a), p, FileOperation("Write", a))
     /\ \A k \in DOMAIN files :
          k \in DOMAIN files' /\ IsPrefix(files[k].operations, files'[k].operations)
     /\ Flushed => files' = files]_vars

\* a path extracted and read by one mod, written by a script, then flushed:
\* the log holds the three entries in call order
C14_Witness ==
  /\ last.op = "flush"
  /\ Log(files, <<"a">>) =
       << FileOperation("Extract", ModName(1)), FileOperation("Read", ModName(1)),
          FileOperation("Write", ScriptActor) >>

\* C15: a host write that is not suppressed leaves exactly one cache entry for
\* the normalized path, holding the written bytes and dirty, with (Write, actor)
\* as the last operation of the path's log, and changes no other cache entry
\* and no other record; every cache entry is dirty.
C15_WriteToCachePost ==
  [][/\ (Called /\ last'.op = "write" /\ ~(dry_run /\ last'.binding = "executor")) =>
          LET np == normalize_path(last'.path)
          IN /\ np \in DOMAIN file_cache'
             /\ file_cache'[np] = [content |-> last'.content, dirty |-> TRUE]
             /\ AppendsOne(files, files', np,
                           FileOperation("Write", ActorOf(last'.binding, last'.mod)))
             /\ DOMAIN file_cache' = (DOMAIN file_cache) \cup {np}
             /\ \A k \in (DOMAIN file_cache) \ {np} : file_cache'[k] = file_cache[k]
     /\ \A k \in DOMAIN file_cache' : file_cache'[k].dirty]_vars

\* a write, spelled "A", that replaced the entry an earlier write made for
\* "a", while another path is cached
C15_Witness ==
  /\ last.op = "write" /\ last.path = <<"A">>
  /\ Cardinality(DOMAIN file_cache) = 2
  /\ file_cache[<<"a">>].content = last.content
  /\ Len(Log(files, <<"a">>)) = 2
  /\ Log(files, <<"a">>)[1].op_type = "Write"
  /\ Log(files, <<"a">>)[1].mod_id # Log(files, <<"a">>)[2].mod_id

\* C16 as stated: read_file_with_cache returns the cached bytes when the path
\* has a cache entry and fails otherwise.
C16_CacheOrNotFound ==
  \A p \in RawPaths, a \in Actors :
    LET r == read_file_with_cache(files, file_cache, disk, p, a)
    IN IF is_cached(file_cache, p)
         THEN r.ok /\ r.content = file_cache[normalize_path(p)].content
         ELSE ~r.ok

\* C16 amended: read_file_with_cache returns the cached bytes when the path
\* has a cache entry; otherwise the bytes of the output file of the path when
\* that file exists; it fails, changing nothing, only when there is neither.
C16_CacheThenDisk ==
  \A p \in RawPaths, a \in Actors :
    LET r == read_file_with_cache(files, file_cache, disk, p, a)
        np == normalize_path(p)
    IN IF is_cached(file_cache, p)
         THEN r.ok /\ r.content = file_cache[np].content
                   /\ r.files = record_read(files, p, a)
       ELSE IF np \in DOMAIN disk
         THEN r.ok /\ r.content = disk[np] /\ r.files = record_read(files, p, a)
       ELSE ~r.ok /\ r.files = files

\* after a flush, a read of the written path finds no cache entry and returns
\* the flushed output file
C16_Witness ==
  /\ last.op = "read" /\ last.ok /\ nflush = 1
  /\ ~is_cached(file_cache, last.path)
  /\ LastPath \in DOMAIN disk
  /\ disk[LastPath] \in WrittenContents
  /\ last.content = disk[LastPath]
  /\ ~is_extracted(files, last.path)

\* the archive states a run can have: opened with its entries, or not opened
ArchiveStates == { <<TRUE, ArchiveEntries>>, <<FALSE, {}>> }

\* C17: a host read of a path that has a cache entry writes no output file,
\* records the Read and no Extract, leaves the cache alone, and its outcome
\* does not depend on the archive or the game directory.
C17_CachedReadNoExtraction ==
  [][(Called /\ last'.op = "read" /\ is_cached(file_cache, last'.path)) =>
       /\ disk' = disk
       /\ file_cache' = file_cache
       /\ AppendsOne(files, files', last'.path,
                     FileOperation("Read", ActorOf(last'.binding, last'.mod)))
       /\ \A fmt \in Formats, s \in ArchiveStates :
            ReadThrough(files, file_cache, disk, s[2], s[1], last'.path,
                        ActorOf(last'.binding, last'.mod), fmt) =
              ReadThrough(files, file_cache, disk, archive, casc_open, last'.path,
                          ActorOf(last'.binding, last'.mod), fmt)]_vars

\* a read of a cached path that the opened archive holds: the path was never
\* extracted and has no output file
C17_Witness ==
  /\ last.op = "read" /\ last.ok /\ casc_open
  /\ is_cached(file_cache, last.path)
  /\ last.content = file_cache[LastPath].content
  /\ FirstVariant(archive, last.path) # 0
  /\ LastPath \notin DOMAIN disk
  /\ "Extract" \notin OpTypes(files[LastPath])

\* C18: create_runtime returns the Lua runtime whenever mod.lua exists, mod.js
\* or not; the JavaScript runtime when only mod.js exists and the build has
\* the JS engine; fails with RuntimeDisabled when only mod.js exists and the
\* build has no JS engine; fails with NoScriptFound when neither file exists.
C18_RuntimePriority ==
  (pc \in {"runtime", "failed"}) =>
    /\ ("mod.lua" \in mod_dir) => (rt.kind = "Lua" /\ rt.err = "")
    /\ (mod_dir = {"mod.js"} /\ js_feature) => (rt.kind = "JavaScript" /\ rt.err = "")
    /\ (mod_dir = {"mod.js"} /\ ~js_feature) =>
         (rt.kind = "none" /\ rt.err = "RuntimeDisabled")
    /\ (mod_dir = {}) => (rt.kind = "none" /\ rt.err = "NoScriptFound")

\* both entry files exist in a build with the JS engine: the Lua runtime
C18_Witness ==
  /\ mod_dir = {"mod.lua", "mod.js"} /\ js_feature
  /\ pc = "runtime" /\ rt.kind = "Lua" /\ rt.stage = "Constructed"

\* position of a stage in Constructed, ApiBound, ConfigBound, Executed, CleanedUp
Rank(stage) ==
  IF stage = "Constructed" THEN 0
  ELSE IF stage = "ApiBound" THEN 1
  ELSE IF stage = "ConfigBound" THEN 2
  ELSE IF stage = "Executed" THEN 3
  ELSE 4

\* C19: a call of setup_api, setup_config, execute or cleanup never moves a
\* runtime to an earlier stage, and the entry script is run at most once per
\* runtime.
C19_ForwardOnly ==
  [][(pc = "runtime" /\ ncalls' = ncalls + 1) =>
       /\ Rank(rt'.stage) >= Rank(rt.stage)
       /\ rt'.runs <= 1]_vars

\* C20: the table read back from the text written for a table is that table.
C20_TsvRoundTrip ==
  (pc = "tsv_read") => (tsv_rows = tsv_data)

\* the fields of a table are made of letters and commas only, none is empty
PlainTable(t) ==
  \A i \in DOMAIN t : \A j \in DOMAIN t[i] :
    t[i][j] # <<>> /\ Range(t[i][j]) \subseteq {"x", ","}

\* tables of non-empty fields of letters and commas do round-trip
TsvPlainRoundTrip ==
  (pc = "tsv_read" /\ PlainTable(tsv_data)) => (tsv_rows = tsv_data)

\* C21: every cell writeTsv emits for a data row is the value the row holds
\* under the header name of the column when that key is present, the
\* positional value when only that is present, and the empty string otherwise.
C21_WriteTsvByHeader ==
  (pc = "lua_written") =>
    \A j \in DOMAIN tsv_table.headers :
      LET r == tsv_table.rows[1]
          h == tsv_table.headers[j]
      IN tsv_rows[2][j] =
           (IF h \in DOMAIN r.named THEN r.named[h]
            ELSE IF j \in DOMAIN r.pos THEN r.pos[j]
            ELSE "")

\* C22: copy_file of a file of the mod directory with overwrite = false onto
\* an existing output file succeeds and leaves the output root unchanged, and
\* copy_file of a directory of the mod directory succeeds and puts every
\* entry of the directory under the destination, in both host layers.
C22_CopyHonorsOverwrite ==
  /\ \A src \in ModFiles, dst \in DOMAIN disk :
       LET c == Context_copy_file(files, file_cache, disk, FALSE, src, dst, FALSE, 1)
           v == Services_copy_file(files, file_cache, disk, archive, casc_open, src, dst)
       IN /\ c.ok /\ c.disk = disk
          /\ v.ok /\ v.disk = disk
  /\ \A src \in ModDirs, dst \in DirDsts, overwrite \in BOOLEAN :
       LET c == Context_copy_file(files, file_cache, disk, FALSE, src, dst, overwrite, 1)
           v == Services_copy_file(files, file_cache, disk, archive, casc_open, src, dst)
       IN /\ c.ok /\ \A n \in DirEntries(src) :
                      Join(dst, n) \in DOMAIN c.disk /\ c.disk[Join(dst, n)] = ModFileContent
          /\ v.ok /\ \A n \in DirEntries(src) :
                      Join(dst, n) \in DOMAIN v.disk /\ v.disk[Join(dst, n)] = ModFileContent

\* C22, first half for the Context layer only: the part that holds
ContextCopyHonorsOverwrite ==
  \A src \in ModFiles, dst \in DOMAIN disk :
    LET c == Context_copy_file(files, file_cache, disk, FALSE, src, dst, FALSE, 1)
    IN c.ok /\ c.disk = disk /\ c.files = files

\* C22, second half for the ScriptServices layer only: the part that holds
ServicesCopyDirRecursive ==
  \A src \in ModDirs, dst \in DirDsts :
    LET v == Services_copy_file(files, file_cache, disk, archive, casc_open, src, dst)
    IN v.ok /\ \A n \in DirEntries(src) :
                 Join(dst, n) \in DOMAIN v.disk /\ v.disk[Join(dst, n)] = ModFileContent

\* C23: when the flush at the end of install_mods fails, the run ends with an
\* error outcome.
C23_FlushFailureFatal ==
  (last.op = "flush" /\ ~last.ok) => pc = RunErr

\* C24: with dry-run enabled a read or an extract call returns what it
\* returns, and leaves the records and the output root as it leaves them,
\* without dry-run.
C24_DryRunReadsSame ==
  [][(Called /\ dry_run) =>
       /\ (last'.op = "extract") =>
            LET n == Context_extract_file(files, file_cache, disk, archive, casc_open,
                                          FALSE, last'.path, last'.mod)
            IN last'.ok = n.ok /\ files' = n.files /\ disk' = n.disk
       /\ (last'.op = "read") =>
            \E fmt \in Formats :
              LET n == ReadThrough(files, file_cache, disk, archive, casc_open, last'.path,
                                   ActorOf(last'.binding, last'.mod), fmt)
              IN last'.ok = n.ok /\ last'.content = n.content
                 /\ files' = n.files /\ disk' = n.disk]_vars

\* C24 for reads only: the part that holds
DryRunReadsSame ==
  [][(Called /\ dry_run /\ last'.op = "read") =>
       \E fmt \in Formats :
         LET n == ReadThrough(files, file_cache, disk, archive, casc_open, last'.path,
                              ActorOf(last'.binding, last'.mod), fmt)
         IN last'.ok = n.ok /\ last'.content = n.content
            /\ files' = n.files /\ disk' = n.disk]_vars

(***************************************************************************)
(* C25: every integer of 53 bits comes back unchanged from the conversion  *)
(* to the engine's number and back, in the JavaScript and the Lua engine.  *)
(***************************************************************************)
C25_NumberRoundTrip == (pc = "num_back") => num_back = num_json

\* C25 for the Lua engine and for the integers of 32 bits: the part that holds
NumberRoundTripNarrow ==
  (pc = "num_back" /\ (binding = "lua" \/ i32_into_i64(as_i32(num_json)) = num_json))
    => num_back = num_json

(***************************************************************************)
(* C26: record_extract, record_read and record_write never fail, and the   *)
(* same call made a second time with the same path and actor leaves the    *)
(* record as the first call left it.                                       *)
(***************************************************************************)
C26_RecordIdempotent ==
  \A p \in RawPaths, m \in Actors :
    /\ record_extract(record_extract(files, p, m), p, m) = record_extract(files, p, m)
    /\ record_read(record_read(files, p, m), p, m) = record_read(files, p, m)
    /\ record_write(record_write(files, p, m), p, m) = record_write(files, p, m)

Flags(r) == <<r.file_path, r.exists, r.extracted, r.modified, r.game_file>>

\* f2 differs from f1 in nothing but the one more entry e in the log of path p
RepeatedCall(f1, f2, p, e) ==
  LET np == normalize_path(p)
  IN /\ np \in DOMAIN f1
     /\ AppendsOne(f1, f2, p, e)
     /\ Flags(f2[np]) = Flags(f1[np])

\* C26 as the code has it: the second call leaves the flags of the record as
\* the first call left them and appends one more operation to its log
C26_FlagsIdempotentLogGrows ==
  \A p \in RawPaths, m \in Actors :
    LET e1 == record_extract(files, p, m)
        r1 == record_read(files, p, m)
        w1 == record_write(files, p, m)
    IN /\ RepeatedCall(e1, record_extract(e1, p, m), p, FileOperation("Extract", m))
       /\ RepeatedCall(r1, record_read(r1, p, m), p, FileOperation("Read", m))
       /\ RepeatedCall(w1, record_write(w1, p, m), p, FileOperation("Write", m))

\* one mod has written the same path twice in a row
C26_Witness ==
  \E k \in DOMAIN files :
    \E i \in DOMAIN files[k].operations :
      /\ i > 1
      /\ files[k].operations[i] = files[k].operations[i - 1]
      /\ files[k].operations[i].op_type = "Write"
      /\ files[k].modified /\ files[k].exists

(***************************************************************************)
(* C27: tracked state only grows.  A record exists only for a path that an *)
(* extract, read or write has referenced (a query of a path without record *)
(* answers None / false and the queries take the map read-only); no step,  *)
(* flush_cache included, removes a record or takes its exists, extracted   *)
(* or modified flag from true back to false, and a record appears only in  *)
(* a step that logs its first operation.                                   *)
(***************************************************************************)
C27_TrackedStateGrows ==
  /\ [](/\ \A k \in DOMAIN files : files[k].operations # <<>>
        /\ \A p \in QueryPaths :
             normalize_path(p) \notin DOMAIN files =>
               /\ get_status(files, p) = "None"
               /\ ~exists(files, p) /\ ~is_extracted(files, p) /\ ~is_modified(files, p))
  /\ [][/\ \A k \in DOMAIN files :
             /\ k \in DOMAIN files'
             /\ files[k].exists => files'[k].exists
             /\ files[k].extracted => files'[k].extracted
             /\ files[k].modified => files'[k].modified
        /\ \A k \in (DOMAIN files') \ (DOMAIN files) :
             /\ Called /\ last'.op \in {"read", "write", "copy", "extract"}
             /\ files'[k].operations # <<>>
             /\ files'[k].operations[1].op_type \in {"Extract", "Read", "Write"}
        /\ Flushed => files' = files]_vars

\* a path extracted and written whose record has outlived a flush, while another
\* path was never referenced
C27_Witness ==
  /\ nflush > 0
  /\ \E k \in DOMAIN files : files[k].exists /\ files[k].extracted /\ files[k].modified
  /\ \E p \in QueryPaths : normalize_path(p) \notin DOMAIN files

(***************************************************************************)
(* C28: for a path with no cache entry and no output copy, the archive is  *)
(* attempted with at least two path variants before the game directory is  *)
(* consulted, and the copy in the game directory is used when no archive   *)
(* storage is open.                                                        *)
(***************************************************************************)
\* p has neither a cache entry nor an output copy
Unavailable(p) == normalize_path(p) \notin DOMAIN file_cache /\ normalize_path(p) \notin DOMAIN disk

\* the number of archive variants tried before the i-th backend call
CascCallsBefore(calls, i) == Cardinality({ j \in 1..(i - 1) : calls[j][1] = "casc" })

C28_ArchiveBeforeGameDir ==
  \A p \in QueryPaths :
    Unavailable(p) =>
      LET e == ensure_extracted(files, disk, archive, casc_open, p, ScriptActor)
      IN /\ \A i \in DOMAIN e.calls :
              e.calls[i][1] = "game_path" => CascCallsBefore(e.calls, i) >= 2
         /\ (~casc_open /\ normalize_path(p) \in GameDirFiles) =>
              e.ok /\ e.disk[normalize_path(p)] = GameDirContent

\* C28 as the code has it: with a storage open the variants are tried in order
\* up to the first that opens, a miss of all of them is an error and the game
\* directory is not consulted; without a storage no variant is tried and the
\* game directory alone decides
C28_GameDirOnlyWithoutArchive ==
  \A p \in QueryPaths :
    Unavailable(p) =>
      LET e == ensure_extracted(files, disk, archive, casc_open, p, ScriptActor)
          np == normalize_path(p)
      IN /\ casc_open =>
              /\ \A i \in DOMAIN e.calls : e.calls[i][1] = "casc"
              /\ Len(e.calls) \in 1..Len(Variations(p))
              /\ \A i \in DOMAIN e.calls : e.calls[i][2] = Variations(p)[i]
              /\ e.ok <=> (Variations(p)[Len(e.calls)] \in archive)
              /\ ~e.ok => Len(e.calls) = Len(Variations(p)) /\ e.disk = disk /\ e.files = files
         /\ ~casc_open =>
              /\ e.calls = GameDirCall(np)
              /\ e.ok <=> (np \in GameDirFiles)
              /\ e.ok => e.disk[np] = GameDirContent /\ is_extracted(e.files, p)
              /\ ~e.ok => e.disk = disk /\ e.files = files

\* a file was extracted from the game directory, no storage being open
C28_Witness ==
  /\ last.op = "extract" /\ last.ok /\ ~casc_open /\ ~dry_run
  /\ LastPath \in DOMAIN disk /\ disk[LastPath] = GameDirContent
  /\ is_extracted(files, last.path)

Extracts(fs, k) == { i \in DOMAIN Log(fs, k) : Log(fs, k)[i].op_type = "Extract" }

C30_ExtractedOnce ==
  /\ [](/\ \A p \in QueryPaths, m \in Actors :
             (is_extracted(files, p) /\ normalize_path(p) \in DOMAIN disk) =>
               LET e == ensure_extracted(files, disk, archive, casc_open, p, m)
               IN e.ok /\ e.calls = <<>> /\ e.files = files /\ e.disk = disk
        /\ \A k \in DOMAIN files : Cardinality(Extracts(files, k)) <= 1)
  /\ [][(/\ Called /\ last'.op = "extract" /\ ~dry_run
         /\ is_extracted(files, last'.path)
         /\ normalize_path(last'.path) \in DOMAIN disk)
          => last'.ok /\ files' = files /\ disk' = disk]_vars

\* a path was extracted, then read, then extracted again: the second
\* extraction found the record and the output copy and logged nothing
C30_Witness ==
  /\ last.op = "extract" /\ last.ok /\ ~dry_run
  /\ Cardinality(Extracts(files, LastPath)) = 1
  /\ Len(Log(files, LastPath)) >= 2
  /\ Log(files, LastPath)[1].op_type = "Extract"
  /\ Log(files, LastPath)[Len(Log(files, LastPath))].op_type = "Read"
  /\ LastPath \in DOMAIN disk

(***************************************************************************)
(* C31: a host read of a path that has no cache entry and no output copy,  *)
(* that no archive variant opens and that the game directory lacks, fails  *)
(* with a not-found error for the calling script and leaves the records,   *)
(* their logs, the cache and the output tree as they were.                 *)
(***************************************************************************)
\* no backend has p
Nowhere(p) ==
  /\ Unavailable(p)
  /\ ~casc_open \/ FirstVariant(archive, p) = 0
  /\ normalize_path(p) \notin GameDirFiles

C31_NotFoundNoChange ==
  [][(Called /\ last'.op = "read" /\ Nowhere(last'.path)) =>
       /\ ~last'.ok /\ last'.err = "notfound"
       /\ UNCHANGED fmvars]_vars

\* a read has just failed for a path that is nowhere
C31_Witness ==
  /\ last.op = "read" /\ ~last.ok /\ last.err = "notfound"
  /\ Nowhere(last.path)
  /\ LastPath \notin DOMAIN files

(***************************************************************************)
(* C32: every operation in a log carries the id of the mod whose script    *)
(* performed it, so get_files_modified_by(m) is exactly the set of paths   *)
(* mod m wrote.                                                            *)
(***************************************************************************)
C32_OperationsCarryModId ==
  /\ [](\A k \in DOMAIN files : \A i \in DOMAIN files[k].operations :
          \E m \in ModIds : files[k].operations[i].mod_id = ModName(m))
  /\ [][(Called /\ last'.op = "write" /\ last'.ok /\ ~dry_run) =>
          normalize_path(last'.path) \in get_files_modified_by(files', ModName(last'.mod))]_vars

\* C32 for the mods that ModExecutor runs: the part that holds
ExecutorOperationsCarryModId ==
  [][(Called /\ last'.binding = "executor" /\ ~dry_run) =>
       /\ (last'.op = "write" /\ last'.ok) =>
            normalize_path(last'.path) \in get_files_modified_by(files', ModName(last'.mod))
       /\ \A k \in DOMAIN files' :
            Len(Log(files', k)) > Len(Log(files, k)) =>
              \A i \in (Len(Log(files, k)) + 1)..Len(Log(files', k)) :
                Log(files', k)[i].mod_id = ModName(last'.mod)]_vars

C34_DangerousDisabled ==
  (pc = "script" /\ binding \in {"executor", "lua"}) => Dangerous \subseteq engine.disabled

\* C34 for the engines ModExecutor builds: the part that holds
ExecutorDangerousDisabled ==
  (pc = "script" /\ binding = "executor") => Dangerous \subseteq engine.disabled

(***************************************************************************)
(* C35: a host read or write holds the exclusive lock of the FileManager   *)
(* from its first to its last FileManager call, so of two host calls       *)
(* issued at the same time neither sees what the other has half done: a    *)
(* cache entry whose Write is not logged yet, or an Extract whose Read is  *)
(* not logged yet.                                                         *)
(***************************************************************************)
\* task t is between its first and its last FileManager call
InSequence(t) == task[t].step \in {"locked", "extract", "record"}

\* task u has done part of its sequence
HalfDone(u) == task[u].step \in {"extract", "record"}

\* every cache entry has its Write in the log of its path
CacheEntriesLogged ==
  \A k \in DOMAIN file_cache :
    \E i \in DOMAIN Log(files, k) : Log(files, k)[i].op_type = "Write"

C35_ExclusiveSequences ==
  /\ \A t \in Tasks, u \in Tasks : (t # u /\ InSequence(t)) => ~HalfDone(u)
  /\ \A t \in Tasks : InSequence(t) => lock = t
  /\ (\A u \in Tasks : ~HalfDone(u)) => CacheEntriesLogged

\* one call waits for the lock while the other has inserted its cache entry
\* and not yet logged the Write
C35_Witness ==
  \E t \in Tasks, u \in Tasks :
    /\ t # u
    /\ task[t].step = "wait"
    /\ task[u].op = "write" /\ task[u].step = "record"
    /\ ~CacheEntriesLogged

(***************************************************************************)
(* C36: what a mod wrote before its script failed is not rolled back: the  *)
(* step in which the mod fails leaves every cache entry and every log in   *)
(* place, a written path keeps its cache entry and its Write whatever the  *)
(* outcome of the mod that wrote it, a later read of the path returns the  *)
(* written bytes, and a flush that succeeds writes them to the output.     *)
(***************************************************************************)
\* the mod being run fails in this step
ModFails == idx \in ModIds /\ results[idx] = "running" /\ results'[idx] = "failed"

C36_NoRollback ==
  /\ [](\A q \in DOMAIN pending :
          /\ q \in DOMAIN file_cache /\ file_cache[q].content = pending[q]
          /\ \E i \in DOMAIN Log(files, q) : Log(files, q)[i].op_type = "Write")
  /\ [][/\ ModFails =>
             \A q \in DOMAIN file_cache :
               /\ q \in DOMAIN file_cache' /\ file_cache'[q] = file_cache[q]
               /\ IsPrefix(Log(files, q), Log(files', q))
        /\ (Called /\ last'.op = "read" /\ last'.ok
              /\ normalize_path(last'.path) \in DOMAIN pending) =>
             last'.content = pending[normalize_path(last'.path)]
        /\ (Flushed /\ last'.ok) =>
             \A q \in DOMAIN pending : q \in DOMAIN disk' /\ disk'[q] = pending[q]]_vars

\* the only mod that made host calls failed, and the flush wrote what it had
\* written
C36_Witness ==
  /\ pc = RunOk /\ last.op = "flush" /\ last.ok
  /\ results[1] = "failed"
  /\ Range(order) = {1}
  /\ last.written # {}
  /\ \A q \in last.written : q \in DOMAIN disk /\ disk[q] \in WrittenContents


\* C37: a JSON value handed to a script by readJson and handed back by
\* writeJson is the value that was read, whatever its shape: empty lists,
\* map members that are null and lists that contain null included.
C37_JsonRoundTrip == pc = "jv_back" => jv_back = jv_json


\* content of the output tree that a mod put there: copy_file and flush_cache
\* write what a mod shipped or serialised, extraction writes the original
ModAuthored(dk, np) == np \in DOMAIN dk /\ dk[np] \notin {ArchiveContent, GameDirContent}

\* C38: extraction never replaces mod-authored content of the output tree:
\* a file of the output root that copy_file or a flush of a mod's write
\* produced is not overwritten with the archived or game-directory original
\* by a later host call that extracts.
C38_ExtractKeepsModContent ==
  [][(ncalls' = ncalls + 1 /\ last'.op \in {"read", "extract", "copy"})
       => \A np \in DOMAIN disk :
            ModAuthored(disk, np) => ModAuthored(disk', np)]_vars


\* the rows read_tsv parsed from the file
ParsedRows == TsvHandler_read(disk[TsvPath])

C40_CachedOnlyIfCompleted ==
  dl.last.cached =>
    \E c \in dl.completed :
      Len(c) <= Len(dl.last.target) /\ SubSeq(dl.last.target, 1, Len(c)) = c

====
